---- MODULE Spec2Model ----
(***************************************************************************)
(* expedantic: ConfigBase.parse_args and its helpers.                      *)
(*                                                                         *)
(* One invocation of parse_args is modelled as a state machine over the    *)
(* local variables of the call: the argument parser's result, the mapping  *)
(* read from the YAML file, the nested mapping rebuilt from the parsed     *)
(* arguments, the merged mapping and the validated instance.               *)
(*                                                                         *)
(* Strings that the code takes apart (flag names, keys) are sequences of   *)
(* one-character strings, so that split, join and replace are computed.    *)
(* Python values are tagged records; a dict is DictV(f) with f a function  *)
(* from keys to values.                                                    *)
(***************************************************************************)
EXTENDS Integers, Sequences, FiniteSets, TLC

VARIABLES
    cls,                          \* the schema class parse_args is called on
    require_default_file,         \* keyword argument of parse_args
    replace_underscore_to_hyphen, \* keyword argument of parse_args
    args,                         \* keyword argument args: the command line
    diff_print_mode,              \* keyword argument of parse_args
    pc,                           \* position of the call in parse_args
    parsed_dict,                  \* local parsed_dict: sequence of <<key, value>>
    yaml_file,                    \* what YAML().load(f) returned
    file_dict,                    \* local file_dict
    nested_args_dict,             \* local nested_args_dict
    validation,                   \* outcome of cls.model_validate(file_dict)
    instance,                     \* the object parse_args returns
    exit_code,                    \* status of exit(), NoExit while running
    rendered,                     \* what was printed, in order
    retval,                       \* what the call returned to its caller
    files,                        \* the YAML files a path names: files[1] is
                                  \* the file at the path, files[i] includes
                                  \* files[i + 1]
    console,                      \* what the printers have put on the
                                  \* console, in order
    suspended,                    \* a second call in progress on another
                                  \* thread, suspended: its arguments and
                                  \* locals; NoneV when there is none
    heap                          \* the dict objects of the merge, by
                                  \* address: heap[i] is the object at i

vars == <<cls, require_default_file, replace_underscore_to_hyphen, args,
          diff_print_mode, pc, parsed_dict, yaml_file, file_dict,
          nested_args_dict, validation, instance, exit_code, rendered,
          retval, files, console, suspended, heap>>

-----------------------------------------------------------------------------
(* Python values *)

IntV(n)  == [kind |-> "int", n |-> n]
StrV(s)  == [kind |-> "str", s |-> s]
BoolV(b) == [kind |-> "bool", b |-> b]
NoneV    == [kind |-> "none"]
DictV(f) == [kind |-> "dict", items |-> f]
ListV(elems) == [kind |-> "list", elems |-> elems]

\* the singleton _NOT_PROVIDED of config_base.py
NOT_PROVIDED == [kind |-> "NOT_PROVIDED"]

\* an exception propagating out of an expression
Raised == [kind |-> "raised"]

NoKeys == {}
EmptyDict == DictV([k \in NoKeys |-> NoneV])

IsDict(v) == v.kind = "dict"
Keys(d) == DOMAIN d.items

\* d[k] = v
SetItem(d, k, v) ==
    DictV([x \in Keys(d) \cup {k} |-> IF x = k THEN v ELSE d.items[x]])

\* d.get(k, default)
DictGet(d, k, default) == IF k \in Keys(d) THEN d.items[k] ELSE default

-----------------------------------------------------------------------------
(* strings as sequences of characters *)

\* str.replace(old, new) for one-character old and new
Replace(s, old, new) == [i \in 1..Len(s) |-> IF s[i] = old THEN new ELSE s[i]]

\* str.split(sep) for a one-character sep
RECURSIVE Split(_, _)
Split(s, sep) ==
    IF \A i \in 1..Len(s) : s[i] # sep THEN <<s>>
    ELSE LET i == CHOOSE j \in 1..Len(s) :
                    s[j] = sep /\ \A m \in 1..(j - 1) : s[m] # sep
         IN <<SubSeq(s, 1, i - 1)>> \o Split(SubSeq(s, i + 1, Len(s)), sep)

\* str.startswith(prefix)
StartsWith(s, prefix) ==
    Len(prefix) <= Len(s) /\ SubSeq(s, 1, Len(prefix)) = prefix

\* the default of parse_args' keyword argument sep
Sep == "."

\* int(text): the integer a raw command-line string spells, Raised for a
\* string that is not an integer literal
IntLiterals == {"0", "2", "4", "7"}
ParseInt(text) ==
    CASE text = "0" -> IntV(0)
      [] text = "2" -> IntV(2)
      [] text = "4" -> IntV(4)
      [] text = "7" -> IntV(7)
      [] OTHER -> Raised

\* list(text): the characters of a raw command-line string; every string
\* of the model but "abc" is one character long
Chars(text) ==
    IF text = "abc" THEN <<"a", "b", "c">> ELSE <<text>>

-----------------------------------------------------------------------------
(* the schemas: classes derived from ConfigBase, in the shape of the ones   *)
(* the tests declare                                                       *)

batch_size == <<"b", "_", "s">>
n_epochs   == <<"n", "_", "e">>
use_mlp    == <<"u", "_", "m">>
n_cnn      == <<"n", "_", "c">>
inner      == <<"i", "n">>
name       == <<"n", "a">>
number     == <<"n", "_", "o">>
optim      == <<"o", "p">>
lr         == <<"l", "r">>
typed_list   == <<"t", "_", "l">>
untyped_list == <<"u", "_", "l">>
plain_list   == <<"p", "_", "l">>
distribution == <<"d", "i">>
level        == <<"l", "v">>

\* one entry of cls.model_fields
FieldInfo(n, tp, required, default, model) ==
    [name |-> n, tp |-> tp, required |-> required, default |-> default,
     model |-> model]

InnerDefault ==
    DictV([k \in {name, number} |->
        IF k = name THEN StrV("Inner") ELSE IntV(3)])
OptimDefault == DictV([k \in {lr} |-> IntV(3)])
RunInnerDefault ==
    DictV([k \in {name, number} |->
        IF k = name THEN StrV("Inner") ELSE IntV(7)])

\* cls.model_fields, in declaration order
\*   class Train:  batch_size: int = 5;  n_epochs: int
\*   class Model:  use_mlp: bool = True;  n_cnn: int = 0
\*                 _mutually_exclusive_sets = [{"use_mlp", "n_cnn"}]
\*   class Inner:  name: str = "Inner";  number: int = 3
\*   class Optim:  lr: int
\*   class Config: inner: Inner = Inner();  optim: Optim = Optim(lr=3)
\*   class Data:   typed_list: list[int] = [];  untyped_list: list = []
\*                 plain_list: typing.List = []
\*   class Run:    inner: Inner = Inner(number=7)
\*   class Dist:   distribution: Literal["Gaussian", "Uniform"]
\*                 level: Literal[2, 4] = 2
model_fields(c) ==
    CASE c = "Train" ->
            <<FieldInfo(batch_size, "int", FALSE, IntV(5), ""),
              FieldInfo(n_epochs, "int", TRUE, NoneV, "")>>
      [] c = "Model" ->
            <<FieldInfo(use_mlp, "bool", FALSE, BoolV(TRUE), ""),
              FieldInfo(n_cnn, "int", FALSE, IntV(0), "")>>
      [] c = "Inner" ->
            <<FieldInfo(name, "str", FALSE, StrV("Inner"), ""),
              FieldInfo(number, "int", FALSE, IntV(3), "")>>
      [] c = "Optim" ->
            <<FieldInfo(lr, "int", TRUE, NoneV, "")>>
      [] c = "Config" ->
            <<FieldInfo(inner, "model", FALSE, InnerDefault, "Inner"),
              FieldInfo(optim, "model", FALSE, OptimDefault, "Optim")>>
      [] c = "Data" ->
            <<FieldInfo(typed_list, "list[int]", FALSE, ListV(<<>>), ""),
              FieldInfo(untyped_list, "list", FALSE, ListV(<<>>), ""),
              FieldInfo(plain_list, "List", FALSE, ListV(<<>>), "")>>
      [] c = "Run" ->
            <<FieldInfo(inner, "model", FALSE, RunInnerDefault, "Inner")>>
      [] c = "Dist" ->
            <<FieldInfo(distribution, "Literal[str]", TRUE, NoneV, ""),
              FieldInfo(level, "Literal[int]", FALSE, IntV(2), "")>>

\* typing.get_origin and typing.get_args of an annotation: a subscripted
\* list[int] and the unsubscripted typing.List have origin list, the
\* builtin class list has none
get_origin(tp) ==
    IF tp \in {"list[int]", "List"} THEN "list"
    ELSE IF tp \in {"Literal[str]", "Literal[int]"} THEN "Literal" ELSE ""
get_args(tp) ==
    CASE tp = "list[int]" -> <<"int">>
      [] tp = "Literal[str]" -> <<StrV("Gaussian"), StrV("Uniform")>>
      [] tp = "Literal[int]" -> <<IntV(2), IntV(4)>>
      [] OTHER -> <<>>

\* str(v) of a literal value
Str(v) ==
    CASE v.kind = "str" -> v.s
      [] v = IntV(2) -> "2"
      [] v = IntV(4) -> "4"

\* the literal values of a Literal annotation
Literals(tp) == {get_args(tp)[i] : i \in 1..Len(get_args(tp))}

\* a conversion that keeps the raw string
get_literals_raw(tp, text) == StrV(text)

\* the conversion utils.get_literals returns for a Literal annotation: the
\* literal whose str() is the raw string, an error when there is none
get_literals(tp, text) ==
    IF \E l \in Literals(tp) : Str(l) = text
    THEN CHOOSE l \in Literals(tp) : Str(l) = text
    ELSE Raised

\* cls._mutually_exclusive_sets
mutually_exclusive_sets(c) ==
    IF c = "Model" THEN {{use_mlp, n_cnn}} ELSE {}

RootClasses == {"Train", "Model", "Config"}

FieldNames(c) == {model_fields(c)[i].name : i \in 1..Len(model_fields(c))}
FieldNamed(c, n) ==
    LET fs == model_fields(c)
    IN fs[CHOOSE i \in 1..Len(fs) : fs[i].name = n]

-----------------------------------------------------------------------------
(* _parse_params, config_base.py:221-290: the arguments added to the parser *)

\* one parser.add_argument(...) call
Argument(n, action, tp, default) ==
    [name |-> n, action |-> action, tp |-> tp, default |-> default]

\* the default of a leaf field's flag, lines 274-288
ArgumentDefault(field, file_mode) ==
    IF file_mode THEN NOT_PROVIDED
    ELSE IF field.required THEN NOT_PROVIDED
    ELSE field.default

\* the add_argument call of a leaf field, lines 242-290: a boolean gets
\* BooleanOptionalAction; an annotation whose origin is list, set or tuple
\* gets nargs="*" and the type of its first argument, or str when it has
\* none; any other annotation is the type itself
LeafArgument(field, flag, file_mode) ==
    LET tp == field.tp
        collection == get_origin(tp) \in {"list", "set", "tuple"}
    IN Argument(flag,
                IF tp = "bool" THEN "bool"
                ELSE IF collection THEN "store_star" ELSE "store",
                IF collection
                THEN (IF Len(get_args(tp)) = 0 THEN "str" ELSE get_args(tp)[1])
                ELSE tp,
                ArgumentDefault(field, file_mode))

RECURSIVE parse_params(_, _, _, _)
RECURSIVE ParseFields(_, _, _, _, _)

\* a walk that gives a nested-schema field a flag of its own as well
ParseFieldsWithContainers(fields, i, parent_key, file_mode, hyphen) ==
    IF i > Len(fields) THEN <<>>
    ELSE LET field == fields[i]
             n == IF parent_key # <<>>
                  THEN parent_key \o <<Sep>> \o field.name
                  ELSE field.name
             flag == IF hyphen THEN Replace(n, "_", "-") ELSE n
             own == <<LeafArgument(field, flag, file_mode)>>
             here ==
                IF field.tp = "model"
                THEN own \o parse_params(field.model, n, file_mode, hyphen)
                ELSE own
         IN here \o ParseFields(fields, i + 1, parent_key, file_mode, hyphen)

\* the loop over cls.model_fields.items() from field i on
ParseFields(fields, i, parent_key, file_mode, hyphen) ==
    IF i > Len(fields) THEN <<>>
    ELSE LET field == fields[i]
             n == IF parent_key # <<>>
                  THEN parent_key \o <<Sep>> \o field.name
                  ELSE field.name
             flag == IF hyphen THEN Replace(n, "_", "-") ELSE n
             here ==
                IF field.tp = "model"
                THEN parse_params(field.model, n, file_mode, hyphen)
                ELSE <<LeafArgument(field, flag, file_mode)>>
         IN here \o ParseFields(fields, i + 1, parent_key, file_mode, hyphen)

parse_params(c, parent_key, file_mode, hyphen) ==
    ParseFields(model_fields(c), 1, parent_key, file_mode, hyphen)

help == <<"h", "e", "l", "p">>
config_file_path == <<"_", "c", "f", "p">>

\* the parser of lines 292-298: the optional positional, --help, the fields
Parser(c, file_mode, hyphen) ==
    [positional |-> file_mode,
     arguments |-> <<Argument(help, "store_true", "bool", BoolV(FALSE))>>
                   \o parse_params(c, <<>>, file_mode, hyphen)]

-----------------------------------------------------------------------------
(* the command line *)

\* an argument string that does not start with "-"
Word(text) == [kind |-> "word", text |-> text]
\* "--<n>"
Flag(n) == [kind |-> "flag", name |-> n, eq |-> FALSE, text |-> ""]
\* "--<n>=<text>"
FlagEq(n, text) == [kind |-> "flag", name |-> n, eq |-> TRUE, text |-> text]
\* "-h"
ShortHelp == [kind |-> "short"]

\* an ordered dict as a sequence of <<key, value>>: d[k] = v keeps the place
\* of a key that is already there and appends a new one
DictSet(d, k, v) ==
    IF \E i \in 1..Len(d) : d[i][1] = k
    THEN [i \in 1..Len(d) |-> IF d[i][1] = k THEN <<k, v>> ELSE d[i]]
    ELSE Append(d, <<k, v>>)

DictHas(d, k) == \E i \in 1..Len(d) : d[i][1] = k
DictValue(d, k) == d[CHOOSE i \in 1..Len(d) : d[i][1] = k][2]
\* del d[k]
DictDel(d, k) == SelectSeq(d, LAMBDA e : e[1] # k)

\* argparse: the dest of an option is its name with "-" replaced by "_"
Dest(n) == Replace(n, "-", "_")

\* the option strings of one argument; BooleanOptionalAction adds --no-<n>
NoPrefix == <<"n", "o", "-">>
OptionStrings(arg) ==
    IF arg.action = "bool" THEN {arg.name, NoPrefix \o arg.name}
    ELSE {arg.name}

Recognised(parser, n) ==
    \E i \in 1..Len(parser.arguments) : n \in OptionStrings(parser.arguments[i])
ArgumentOf(parser, n) ==
    parser.arguments[CHOOSE i \in 1..Len(parser.arguments) :
                        n \in OptionStrings(parser.arguments[i])]

\* ArgumentParser._get_value, utils.py:146-151: the type is applied and the
\* raw string is kept when the conversion fails
get_value(tp, text) ==
    IF tp = "int"
    THEN IF ParseInt(text) = Raised THEN StrV(text) ELSE ParseInt(text)
    ELSE IF tp = "list"
    THEN ListV([i \in 1..Len(Chars(text)) |-> StrV(Chars(text)[i])])
    ELSE IF get_origin(tp) = "Literal"
    THEN IF get_literals(tp, text) = Raised THEN StrV(text)
         ELSE get_literals(tp, text)
    ELSE StrV(text)

\* the number of words from argv[i] on, up to the next option or the end
RECURSIVE WordRun(_, _)
WordRun(argv, i) ==
    IF i > Len(argv) \/ argv[i].kind # "word" THEN 0
    ELSE 1 + WordRun(argv, i + 1)

ParseResult(status, code, ns, extras) ==
    [status |-> status, code |-> code, ns |-> ns, extras |-> extras]

\* self.parse_known_args(args), utils.py:160: argparse reads the argument
\* strings left to right; an option it does not know and a word no
\* positional takes go to extras; a missing argument is error(), exit 2
RECURSIVE KnownScan(_, _, _, _, _, _)
KnownScan(parser, argv, i, ns, extras, pos_filled) ==
    IF i > Len(argv)
    THEN IF parser.positional /\ ~pos_filled
         THEN ParseResult("exit", 2, ns, extras)
         ELSE ParseResult("ok", 0, ns, extras)
    ELSE LET t == argv[i] IN
      CASE t.kind = "word" ->
            IF parser.positional /\ ~pos_filled
            THEN KnownScan(parser, argv, i + 1,
                           DictSet(ns, config_file_path, StrV(t.text)),
                           extras, TRUE)
            ELSE KnownScan(parser, argv, i + 1, ns, Append(extras, t),
                           pos_filled)
        [] t.kind = "short" ->
            KnownScan(parser, argv, i + 1, DictSet(ns, help, BoolV(TRUE)),
                      extras, pos_filled)
        [] t.kind = "flag" /\ ~Recognised(parser, t.name) ->
            KnownScan(parser, argv, i + 1, ns, Append(extras, t), pos_filled)
        [] t.kind = "flag" /\ Recognised(parser, t.name) ->
            LET arg == ArgumentOf(parser, t.name) IN
            CASE arg.action = "store_true" ->
                    IF t.eq THEN ParseResult("exit", 2, ns, extras)
                    ELSE KnownScan(parser, argv, i + 1,
                                   DictSet(ns, Dest(arg.name), BoolV(TRUE)),
                                   extras, pos_filled)
              [] arg.action = "bool" ->
                    IF t.eq THEN ParseResult("exit", 2, ns, extras)
                    ELSE KnownScan(parser, argv, i + 1,
                                   DictSet(ns, Dest(arg.name),
                                           BoolV(~StartsWith(t.name, NoPrefix))),
                                   extras, pos_filled)
              [] arg.action = "store" ->
                    IF t.eq
                    THEN KnownScan(parser, argv, i + 1,
                                   DictSet(ns, Dest(arg.name),
                                           get_value(arg.tp, t.text)),
                                   extras, pos_filled)
                    ELSE IF i < Len(argv) /\ argv[i + 1].kind = "word"
                    THEN KnownScan(parser, argv, i + 2,
                                   DictSet(ns, Dest(arg.name),
                                           get_value(arg.tp, argv[i + 1].text)),
                                   extras, pos_filled)
                    ELSE ParseResult("exit", 2, ns, extras)
              [] arg.action = "store_star" ->
                    IF t.eq
                    THEN KnownScan(parser, argv, i + 1,
                                   DictSet(ns, Dest(arg.name),
                                           ListV(<<get_value(arg.tp, t.text)>>)),
                                   extras, pos_filled)
                    ELSE LET k == WordRun(argv, i + 1)
                         IN KnownScan(parser, argv, i + 1 + k,
                                DictSet(ns, Dest(arg.name),
                                    ListV([j \in 1..k |->
                                        get_value(arg.tp, argv[i + j].text)])),
                                extras, pos_filled)

\* the namespace before any argument string is read: every dest with its
\* default, in the order the arguments were added
RECURSIVE Defaults(_, _)
Defaults(arguments, i) ==
    IF i > Len(arguments) THEN <<>>
    ELSE <<<<Dest(arguments[i].name), arguments[i].default>>>>
         \o Defaults(arguments, i + 1)

parse_known_args(parser, argv) ==
    KnownScan(parser, argv, 1,
              (IF parser.positional THEN <<<<config_file_path, NoneV>>>>
               ELSE <<>>) \o Defaults(parser.arguments, 1),
              <<>>, FALSE)

\* unknown_parser.parse_args(unknown_args), utils.py:175-182: every "--name"
\* was added with type=str, nargs="?", const=True; a word no option takes
\* is error(), exit 2
RECURSIVE UnknownScan(_, _, _)
UnknownScan(extras, i, ns) ==
    IF i > Len(extras) THEN ParseResult("ok", 0, ns, <<>>)
    ELSE LET t == extras[i] IN
      IF t.kind # "flag" THEN ParseResult("exit", 2, ns, <<>>)
      ELSE IF t.eq
      THEN UnknownScan(extras, i + 1, DictSet(ns, Dest(t.name), StrV(t.text)))
      ELSE IF i < Len(extras) /\ extras[i + 1].kind = "word"
      THEN UnknownScan(extras, i + 2,
                       DictSet(ns, Dest(t.name), StrV(extras[i + 1].text)))
      ELSE UnknownScan(extras, i + 1, DictSet(ns, Dest(t.name), BoolV(TRUE)))

\* known_dict.update(unknown_dict), utils.py:186
RECURSIVE DictUpdate(_, _, _)
DictUpdate(d, other, i) ==
    IF i > Len(other) THEN d
    ELSE DictUpdate(DictSet(d, other[i][1], other[i][2]), other, i + 1)

\* a parser that checks the unknown arguments and then leaves them out
parse_known_only(parser, argv) ==
    LET known == parse_known_args(parser, argv)
        flags == {i \in 1..Len(known.extras) : known.extras[i].kind = "flag"}
        unknown == UnknownScan(known.extras, 1, <<>>)
    IN IF known.status # "ok" THEN known
       ELSE IF \E i, j \in flags :
                    i # j /\ known.extras[i].name = known.extras[j].name
       THEN ParseResult("raised", 1, <<>>, <<>>)
       ELSE IF unknown.status # "ok" THEN unknown
       ELSE ParseResult("ok", 0, known.ns, <<>>)

\* ArgumentParser.parse_all_args_as_dict, utils.py:159-187; adding the same
\* "--name" twice to unknown_parser raises argparse.ArgumentError
parse_all_args_as_dict(parser, argv) ==
    LET known == parse_known_args(parser, argv)
        flags == {i \in 1..Len(known.extras) : known.extras[i].kind = "flag"}
        unknown == UnknownScan(known.extras, 1, <<>>)
    IN IF known.status # "ok" THEN known
       ELSE IF \E i, j \in flags :
                    i # j /\ known.extras[i].name = known.extras[j].name
       THEN ParseResult("raised", 1, <<>>, <<>>)
       ELSE IF unknown.status # "ok" THEN unknown
       ELSE ParseResult("ok", 0, DictUpdate(known.ns, unknown.ns, 1), <<>>)

-----------------------------------------------------------------------------
(* update_recursively, config_base.py:323-329 *)

RECURSIVE update_recursively(_, _)
RECURSIVE UpdateItems(_, _, _)

\* a merge whose leaf branch is d.setdefault(k, v): the base value survives
UpdateItemsKeepBase(d, other, ks) ==
    IF ks = {} THEN d
    ELSE IF ~IsDict(d) THEN Raised
    ELSE LET k == CHOOSE x \in ks : TRUE
             v == other.items[k]
             nv == IF IsDict(v)
                   THEN update_recursively(DictGet(d, k, EmptyDict), v)
                   ELSE DictGet(d, k, v)
         IN IF nv = Raised THEN Raised
            ELSE UpdateItems(SetItem(d, k, nv), other, ks \ {k})

\* a merge that is dict.update: d[k] = v for mappings too, no recursion
UpdateItemsOverwrite(d, other, ks) ==
    IF ks = {} THEN d
    ELSE IF ~IsDict(d) THEN Raised
    ELSE LET k == CHOOSE x \in ks : TRUE
         IN UpdateItems(SetItem(d, k, other.items[k]), other, ks \ {k})

\* a merge that only updates the keys d already has
UpdateItemsExistingOnly(d, other, ks) ==
    IF ks = {} THEN d
    ELSE IF ~IsDict(d) THEN Raised
    ELSE LET k == CHOOSE x \in ks : TRUE
             v == other.items[k]
             nv == IF IsDict(v)
                   THEN update_recursively(DictGet(d, k, EmptyDict), v)
                   ELSE v
         IN IF nv = Raised THEN Raised
            ELSE IF k \in Keys(d)
                 THEN UpdateItems(SetItem(d, k, nv), other, ks \ {k})
                 ELSE UpdateItems(d, other, ks \ {k})

\* the loop "for k, v in other.items()" over the keys ks not yet visited;
\* d[k] = ... on something that is not a dict raises
UpdateItems(d, other, ks) ==
    IF ks = {} THEN d
    ELSE IF ~IsDict(d) THEN Raised
    ELSE LET k == CHOOSE x \in ks : TRUE
             v == other.items[k]
             nv == IF IsDict(v)
                   THEN update_recursively(DictGet(d, k, EmptyDict), v)
                   ELSE v
         IN IF nv = Raised THEN Raised
            ELSE UpdateItems(SetItem(d, k, nv), other, ks \ {k})

update_recursively(d, other) == UpdateItems(d, other, Keys(other))

-----------------------------------------------------------------------------
(* the rebuilding of the nested mapping, config_base.py:313-321 *)

\* current_level = current_level.setdefault(key, {}) for key in keys[:-1],
\* then current_level[keys[-1]] = v; a level that is not a dict raises
RECURSIVE SetPath(_, _, _)
SetPath(d, keys, v) ==
    IF ~IsDict(d) THEN Raised
    ELSE IF Len(keys) = 1 THEN SetItem(d, keys[1], v)
    ELSE LET r == SetPath(DictGet(d, keys[1], EmptyDict), Tail(keys), v)
         IN IF r = Raised THEN Raised ELSE SetItem(d, keys[1], r)

\* a rebuilding that forgets the "if v is _NOT_PROVIDED: continue"
RECURSIVE Rehydrate(_, _, _)
RehydrateKeepSentinel(pd, i, nested) ==
    IF i > Len(pd) THEN nested
    ELSE LET r == SetPath(nested, Split(pd[i][1], Sep), pd[i][2])
         IN IF r = Raised THEN Raised ELSE Rehydrate(pd, i + 1, r)

\* the loop "for k, v in parsed_dict.items()" from entry i on
Rehydrate(pd, i, nested) ==
    IF i > Len(pd) THEN nested
    ELSE IF pd[i][2] = NOT_PROVIDED THEN Rehydrate(pd, i + 1, nested)
    ELSE LET r == SetPath(nested, Split(pd[i][1], Sep), pd[i][2])
         IN IF r = Raised THEN Raised ELSE Rehydrate(pd, i + 1, r)

-----------------------------------------------------------------------------
(* validation: pydantic's model_validate on a ConfigBase class, with        *)
(* extra="forbid" (config_base.py:43-45) and the model validator of         *)
(* config_base.py:361-369                                                   *)

\* bool(v) of Python; a nested config is a Mapping and is truthy when it
\* has fields (ConfigBase.__len__, config_base.py:376-377)
Truthy(v) ==
    CASE v.kind = "bool" -> v.b
      [] v.kind = "int" -> v.n # 0
      [] v.kind = "str" -> v.s # ""
      [] v.kind = "none" -> FALSE
      [] v.kind = "dict" -> Keys(v) # {}
      [] v.kind = "list" -> v.elems # <<>>
      [] OTHER -> TRUE

\* sum(bool(self[key]) for key in exclusive_set)
RECURSIVE TruthySum(_, _)
TruthySum(self, keys) ==
    IF keys = {} THEN 0
    ELSE LET k == CHOOSE x \in keys : TRUE
         IN (IF Truthy(self.items[k]) THEN 1 ELSE 0)
            + TruthySum(self, keys \ {k})

\* a check that only rejects two or more truthy members
check_at_most_one(c, self) ==
    \A exclusive_set \in mutually_exclusive_sets(c) :
        TruthySum(self, exclusive_set) <= 1

\* ConfigBase.check_mutually_exclusive_sets: TRUE when it returns self,
\* FALSE when it raises ValueError
check_mutually_exclusive_sets(c, self) ==
    \A exclusive_set \in mutually_exclusive_sets(c) :
        TruthySum(self, exclusive_set) = 1

TrueStrings == {"1", "true", "t", "y", "yes", "on"}
FalseStrings == {"0", "false", "f", "n", "no", "off"}

FieldOk(v) == [value |-> v, errors |-> {}]
FieldError(loc, type) ==
    [value |-> NoneV, errors |-> {[loc |-> loc, type |-> type]}]

\* pydantic's lax-mode validation of one value against a leaf annotation
ValidateLeaf(tp, v, loc) ==
    CASE tp = "int" ->
            (CASE v.kind = "int" -> FieldOk(v)
               [] v.kind = "bool" -> FieldOk(IntV(IF v.b THEN 1 ELSE 0))
               [] v.kind = "str" ->
                    IF ParseInt(v.s) = Raised
                    THEN FieldError(loc, "int_parsing")
                    ELSE FieldOk(ParseInt(v.s))
               [] OTHER -> FieldError(loc, "int_type"))
      [] tp = "bool" ->
            (CASE v.kind = "bool" -> FieldOk(v)
               [] v.kind = "int" ->
                    IF v.n \in {0, 1} THEN FieldOk(BoolV(v.n = 1))
                    ELSE FieldError(loc, "bool_parsing")
               [] v.kind = "str" ->
                    IF v.s \in TrueStrings THEN FieldOk(BoolV(TRUE))
                    ELSE IF v.s \in FalseStrings THEN FieldOk(BoolV(FALSE))
                    ELSE FieldError(loc, "bool_parsing")
               [] OTHER -> FieldError(loc, "bool_type"))
      [] tp = "str" ->
            IF v.kind = "str" THEN FieldOk(v)
            ELSE FieldError(loc, "string_type")
      [] tp = "list[int]" ->
            IF v.kind # "list" THEN FieldError(loc, "list_type")
            ELSE LET bad == {i \in 1..Len(v.elems) :
                                ~(\/ v.elems[i].kind \in {"int", "bool"}
                                  \/ /\ v.elems[i].kind = "str"
                                     /\ ParseInt(v.elems[i].s) # Raised)}
                 IN IF bad # {}
                    THEN [value |-> NoneV,
                          errors |-> {[loc |-> loc \o <<<<"#">>>>,
                                       type |-> "int_parsing"]}]
                    ELSE FieldOk(ListV([i \in 1..Len(v.elems) |->
                            CASE v.elems[i].kind = "int" -> v.elems[i]
                              [] v.elems[i].kind = "bool" ->
                                    IntV(IF v.elems[i].b THEN 1 ELSE 0)
                              [] OTHER -> ParseInt(v.elems[i].s)]))
      [] tp \in {"list", "List"} ->
            IF v.kind = "list" THEN FieldOk(v)
            ELSE FieldError(loc, "list_type")
      [] tp \in {"Literal[str]", "Literal[int]"} ->
            IF v \in Literals(tp) THEN FieldOk(v)
            ELSE FieldError(loc, "literal_error")

ValidationOk(v) == [kind |-> "ok", value |-> v, errors |-> {}]
ValidationError(errors) == [kind |-> "error", value |-> NoneV, errors |-> errors]
NotValidated == [kind |-> "none", value |-> NoneV, errors |-> {}]

\* cls.model_validate(v): every field is validated and all errors are
\* collected; a key that is no field is extra_forbidden; the model validator
\* (mode="after") runs when no field failed
RECURSIVE model_validate(_, _, _)

\* the field-level part: the errors, and the object the fields make
ValidateFields(c, v, loc) ==
    IF ~IsDict(v)
    THEN [errors |-> {[loc |-> loc, type |-> "model_type"]}, self |-> NoneV]
    ELSE
      LET field(n) == FieldNamed(c, n)
          result(n) ==
            IF n \notin Keys(v)
            THEN IF field(n).required
                 THEN FieldError(loc \o <<n>>, "missing")
                 ELSE FieldOk(field(n).default)
            ELSE IF field(n).tp = "model"
            THEN LET r == model_validate(field(n).model, v.items[n],
                                         loc \o <<n>>)
                 IN [value |-> r.value, errors |-> r.errors]
            ELSE ValidateLeaf(field(n).tp, v.items[n], loc \o <<n>>)
          extra == {[loc |-> loc \o <<k>>, type |-> "extra_forbidden"] :
                        k \in Keys(v) \ FieldNames(c)}
      IN [errors |-> extra \cup UNION {result(n).errors : n \in FieldNames(c)},
          self |-> DictV([n \in FieldNames(c) |-> result(n).value])]

\* a validation that runs the model validator whether or not a field
\* failed, on the values the fields that passed have
model_validate_check_always(c, v, loc) ==
    LET fields == ValidateFields(c, v, loc)
        failed == IsDict(fields.self)
                  /\ ~check_mutually_exclusive_sets(c, fields.self)
        errors == fields.errors \cup
                  (IF failed THEN {[loc |-> loc, type |-> "value_error"]}
                   ELSE {})
    IN IF errors # {} THEN ValidationError(errors)
       ELSE ValidationOk(fields.self)

model_validate(c, v, loc) ==
    LET fields == ValidateFields(c, v, loc)
    IN IF fields.errors # {} THEN ValidationError(fields.errors)
       ELSE IF ~check_mutually_exclusive_sets(c, fields.self)
       THEN ValidationError({[loc |-> loc, type |-> "value_error"]})
       ELSE ValidationOk(fields.self)

-----------------------------------------------------------------------------
(* print_validation_errors, printers/validation.py:124-200 *)

\* format_error_type, lines 19-48, on the types that get a table of their
\* own
format_error_type(error_type) ==
    CASE error_type = "missing" -> "Missing Required Values"
      [] error_type = "type_error" -> "Type Errors"
      [] error_type = "value_error" -> "Value Errors"

\* the errors as a list
RECURSIVE ErrorList(_)
ErrorList(errors) ==
    IF errors = {} THEN <<>>
    ELSE LET e == CHOOSE x \in errors : TRUE
         IN <<e>> \o ErrorList(errors \ {e})

\* lines 141-146: the errors of each type that occurs
errors_by_type(errors) ==
    [t \in {e.type : e \in errors} |-> ErrorList({e \in errors : e.type = t})]

\* lines 152-156
errors_map ==
    <<[type |-> "missing", colour |-> "yellow", include_msg |-> FALSE],
      [type |-> "type_error", colour |-> "red", include_msg |-> TRUE],
      [type |-> "value_error", colour |-> "magenta", include_msg |-> TRUE]>>

\* create_table, lines 92-121: one node of the tree with one table, a row
\* for every error
create_table(errors, error_type, table_config) ==
    [node |-> format_error_type(error_type),
     colour |-> table_config.colour,
     columns |-> <<"Field", "Type">>
                 \o (IF table_config.include_msg THEN <<"Error">> ELSE <<>>),
     rows |-> errors]

\* lines 158-162: the tables of the types of errors_map that occur, from
\* entry i on
RECURSIVE TypedTables(_, _)
TypedTables(by_type, i) ==
    IF i > Len(errors_map) THEN <<>>
    ELSE (IF errors_map[i].type \in DOMAIN by_type
          THEN <<create_table(by_type[errors_map[i].type],
                              errors_map[i].type, errors_map[i])>>
          ELSE <<>>)
         \o TypedTables(by_type, i + 1)

\* a filter that lets every type through
other_errors_unfiltered(by_type) == DOMAIN by_type

\* lines 165-169: the types that have no table of their own
other_errors(by_type) ==
    {k \in DOMAIN by_type : k \notin {"missing", "type_error", "value_error"}}

\* the rows of the types ks, lines 179-195
RECURSIVE OtherRows(_, _)
OtherRows(by_type, ks) ==
    IF ks = {} THEN <<>>
    ELSE LET k == CHOOSE x \in ks : TRUE
         IN by_type[k] \o OtherRows(by_type, ks \ {k})

\* the panel print_validation_errors prints
print_validation_errors(model_cls, errors) ==
    LET by_type == errors_by_type(errors)
        others == other_errors(by_type)
    IN [title |-> "Validation Errors",
        tree |-> model_cls,
        children |->
            TypedTables(by_type, 1)
            \o (IF others # {}
                THEN <<[node |-> "Other Validation Errors",
                        colour |-> "blue",
                        columns |-> <<"Field", "Type", "Error Type", "Error",
                                      "Context">>,
                        rows |-> OtherRows(by_type, others)]>>
                ELSE <<>>)]

-----------------------------------------------------------------------------
(* bounds of the merge inputs *)

MaxDepth == 2
MaxLeaves == 2

a == <<"a">>
b == <<"b">>
MergeKeys == {a, b}
MergeLeafVals == {IntV(1), IntV(2), EmptyDict}

\* the key paths of length n: every path of one or two keys; a longer path
\* runs through mappings at key a only, which keeps deeper inputs enumerable
Spine(n) == [i \in 1..n |-> a]
RECURSIVE PathsOfLen(_)
PathsOfLen(n) ==
    IF n = 0 THEN {<<>>}
    ELSE IF n <= 2
    THEN {<<k>> \o p : k \in MergeKeys, p \in PathsOfLen(n - 1)}
    ELSE {Spine(n - 1) \o <<k>> : k \in MergeKeys}

MergePaths == UNION {PathsOfLen(n) : n \in 1..MaxDepth}

IsPrefix(p, q) == Len(p) <= Len(q) /\ SubSeq(q, 1, Len(p)) = p

\* the nested mapping that holds value e[2] at path e[1] for every e in es
RECURSIVE NestedOf(_)
NestedOf(es) ==
    LET heads == {e[1][1] : e \in es}
        sub(k) == {<<Tail(e[1]), e[2]>> : e \in {x \in es : x[1][1] = k}}
    IN DictV([k \in heads |->
            IF \E e \in sub(k) : e[1] = <<>>
            THEN (CHOOSE e \in sub(k) : e[1] = <<>>)[2]
            ELSE NestedOf(sub(k))])

MergeEntries == MergePaths \X MergeLeafVals

PrefixFree(s) == \A x, y \in s : x # y => ~IsPrefix(x[1], y[1])

\* the prefix-free sets of at most n entries
RECURSIVE EntrySets(_)
EntrySets(n) ==
    IF n = 0 THEN {{}}
    ELSE LET smaller == EntrySets(n - 1)
             grown == {s \cup {e} : s \in smaller, e \in MergeEntries}
         IN smaller \cup {t \in grown : PrefixFree(t)}

MergeInputs == {NestedOf(es) : es \in EntrySets(MaxLeaves)}

-----------------------------------------------------------------------------
(* the merge step of parse_args, config_base.py:331 *)

NoExit == -1

Merge ==
    /\ pc = "merge"
    /\ LET r == update_recursively(file_dict, nested_args_dict)
       IN IF r = Raised
          THEN /\ pc' = "raised"
               /\ exit_code' = 1
               /\ UNCHANGED file_dict
          ELSE /\ pc' = "validate"
               /\ file_dict' = r
               /\ UNCHANGED exit_code
    /\ UNCHANGED <<cls, require_default_file, replace_underscore_to_hyphen,
                   args, diff_print_mode, retval, files, suspended, console,
                   heap,
                   parsed_dict,
                   yaml_file, nested_args_dict, validation, instance, rendered>>

InitMerge ==
    /\ console = <<>>
    /\ heap = <<>>
    /\ suspended = NoneV
    /\ cls = "Config"
    /\ require_default_file = TRUE
    /\ replace_underscore_to_hyphen = FALSE
    /\ args = <<>>
    /\ diff_print_mode = "none"
    /\ pc = "merge"
    /\ parsed_dict = <<>>
    /\ yaml_file \in MergeInputs
    /\ file_dict = yaml_file
    /\ nested_args_dict \in MergeInputs
    /\ validation = NotValidated
    /\ instance = NoneV
    /\ exit_code = NoExit
    /\ rendered = <<>>
    /\ retval = NoneV
    /\ files = <<>>

NextMerge == Merge

SpecMerge == InitMerge /\ [][NextMerge]_vars

-----------------------------------------------------------------------------
(* the merge on objects: which dict objects update_recursively reads,      *)
(* writes and returns, config_base.py:323-331                              *)

\* a reference to the dict object at an address
Ref(addr) == [kind |-> "ref", addr |-> addr]

\* the dict objects that hold a value of the model: one object for the
\* mapping and one for every mapping below it, no object held twice
RECURSIVE Alloc(_, _)
RECURSIVE AllocItems(_, _, _, _)
AllocItems(h, v, ks, obj) ==
    IF ks = {} THEN [heap |-> Append(h, obj), addr |-> Len(h) + 1]
    ELSE LET k == CHOOSE x \in ks : TRUE
             sub == IF IsDict(v.items[k]) THEN Alloc(h, v.items[k])
                    ELSE [heap |-> h, addr |-> 0]
             cell == IF IsDict(v.items[k]) THEN Ref(sub.addr)
                     ELSE v.items[k]
         IN AllocItems(sub.heap, v, ks \ {k},
                [x \in DOMAIN obj \cup {k} |->
                    IF x = k THEN cell ELSE obj[x]])
Alloc(h, v) == AllocItems(h, v, Keys(v), [x \in NoKeys |-> NoneV])

\* file_dict and nested_args_dict as objects: the loaded YAML mapping and
\* the mapping rebuilt from the flags have no object in common
InitHeap(base, overlay) ==
    LET first == Alloc(<<>>, base)
        second == Alloc(first.heap, overlay)
    IN [heap |-> second.heap, base |-> Ref(first.addr),
        overlay |-> Ref(second.addr)]

\* d[k] = cell on the object at address d
Store(h, d, k, cell) ==
    [h EXCEPT ![d] = [x \in DOMAIN h[d] \cup {k} |->
                        IF x = k THEN cell ELSE h[d][x]]]

MergeDone(h, ret) == [heap |-> h, ret |-> ret, raised |-> FALSE]
MergeRaised(h) == [heap |-> h, ret |-> NoneV, raised |-> TRUE]

RECURSIVE update_recursively_objects(_, _, _)
RECURSIVE UpdateObjectItems(_, _, _, _)

\* a loop that stores the overlay's own mapping where d has no key k
UpdateObjectItemsSharing(h, d, other, ks) ==
    IF ks = {} THEN MergeDone(h, d)
    ELSE IF d.kind # "ref" THEN MergeRaised(h)
    ELSE LET k == CHOOSE x \in ks : TRUE
             v == h[other.addr][k]
         IN IF v.kind = "ref" /\ k \in DOMAIN h[d.addr]
            THEN LET r == update_recursively_objects(h, h[d.addr][k], v)
                 IN IF r.raised THEN r
                    ELSE UpdateObjectItems(Store(r.heap, d.addr, k, r.ret),
                                           d, other, ks \ {k})
            ELSE UpdateObjectItems(Store(h, d.addr, k, v), d, other, ks \ {k})

\* the loop "for k, v in other.items()" over the keys ks still to come: d is a
\* reference or, from d.get(k, {}) on a key that holds none, a value that
\* is no dict, on which d.get and d[k] = ... raise; d.get(k, {}) makes a new
\* empty dict for a key d does not have
UpdateObjectItems(h, d, other, ks) ==
    IF ks = {} THEN MergeDone(h, d)
    ELSE IF d.kind # "ref" THEN MergeRaised(h)
    ELSE LET k == CHOOSE x \in ks : TRUE
             v == h[other.addr][k]
         IN IF v.kind = "ref"
            THEN LET has == k \in DOMAIN h[d.addr]
                     h1 == IF has THEN h
                           ELSE Append(h, [x \in NoKeys |-> NoneV])
                     sub == IF has THEN h[d.addr][k] ELSE Ref(Len(h) + 1)
                     r == update_recursively_objects(h1, sub, v)
                 IN IF r.raised THEN r
                    ELSE UpdateObjectItems(Store(r.heap, d.addr, k, r.ret),
                                           d, other, ks \ {k})
            ELSE UpdateObjectItems(Store(h, d.addr, k, v), d, other, ks \ {k})

\* update_recursively(d, other) on objects: the heap it leaves and the object
\* it returns
update_recursively_objects(h, d, other) ==
    UpdateObjectItems(h, d, other, DOMAIN h[other.addr])

\* line 331 on objects: file_dict = update_recursively(file_dict,
\* nested_args_dict)
MergeObjects ==
    /\ pc = "merge"
    /\ LET r == update_recursively_objects(heap, file_dict, nested_args_dict)
       IN /\ heap' = r.heap
          /\ IF r.raised
             THEN /\ pc' = "raised"
                  /\ exit_code' = 1
                  /\ UNCHANGED file_dict
             ELSE /\ pc' = "validate"
                  /\ file_dict' = r.ret
                  /\ UNCHANGED exit_code
    /\ UNCHANGED <<cls, require_default_file, replace_underscore_to_hyphen,
                   args, diff_print_mode, retval, files, suspended, console,
                   parsed_dict, yaml_file, nested_args_dict, validation,
                   instance, rendered>>

\* yaml_file keeps the value the file held and parsed_dict the value the
\* flags gave; file_dict and nested_args_dict refer to their objects. The
\* file holds a mapping of fewer than MaxLeaves leaves, the flags give one
\* of up to MaxLeaves
InitObjects ==
    /\ console = <<>>
    /\ suspended = NoneV
    /\ cls = "Config"
    /\ require_default_file = TRUE
    /\ replace_underscore_to_hyphen = FALSE
    /\ args = <<>>
    /\ diff_print_mode = "none"
    /\ pc = "merge"
    /\ yaml_file \in {NestedOf(es) : es \in EntrySets(MaxLeaves - 1)}
    /\ parsed_dict \in MergeInputs
    /\ LET objects == InitHeap(yaml_file, parsed_dict)
       IN /\ heap = objects.heap
          /\ file_dict = objects.base
          /\ nested_args_dict = objects.overlay
    /\ validation = NotValidated
    /\ instance = NoneV
    /\ exit_code = NoExit
    /\ rendered = <<>>
    /\ retval = NoneV
    /\ files = <<>>

NextObjects == MergeObjects

SpecObjects == InitObjects /\ [][NextObjects]_vars

-----------------------------------------------------------------------------
(* the inputs of one parse_args call *)

MaxArgs == 2

unk == <<"u", "n", "k">>

\* the other spelling of a flag: hyphens where the parser has underscores,
\* or underscores where it has hyphens
OtherSpelling(n, hyphen) ==
    IF hyphen THEN Replace(n, "-", "_") ELSE Replace(n, "_", "-")

\* what can be written for one argument of the parser
ArgumentUnits(arg, hyphen) ==
    CASE arg.action = "bool" ->
            {<<Flag(arg.name)>>, <<Flag(NoPrefix \o arg.name)>>}
            \cup (IF OtherSpelling(arg.name, hyphen) # arg.name
                  THEN {<<Flag(OtherSpelling(arg.name, hyphen))>>}
                  ELSE {})
      [] arg.action = "store" /\ arg.tp = "int" ->
            {<<Flag(arg.name), Word("7")>>, <<FlagEq(arg.name, "abc")>>}
            \cup (IF OtherSpelling(arg.name, hyphen) # arg.name
                  THEN {<<FlagEq(OtherSpelling(arg.name, hyphen), "7")>>}
                  ELSE {})
      [] arg.action = "store" /\ arg.tp = "str" ->
            {<<Flag(arg.name), Word("abc")>>}
      [] arg.action = "store" /\ arg.tp = "list" ->
            {<<Flag(arg.name)>>, <<Flag(arg.name), Word("abc")>>,
             <<Flag(arg.name), Word("7"), Word("4")>>}
      [] arg.action = "store" /\ arg.tp = "Literal[str]" ->
            {<<Flag(arg.name), Word("Gaussian")>>,
             <<Flag(arg.name), Word("Dirichlet")>>,
             <<FlagEq(arg.name, "Uniform")>>}
      [] arg.action = "store" /\ arg.tp = "Literal[int]" ->
            {<<Flag(arg.name), Word("4")>>, <<Flag(arg.name), Word("7")>>}
      [] arg.action = "store_star" ->
            {<<Flag(arg.name)>>, <<Flag(arg.name), Word("abc")>>,
             <<Flag(arg.name), Word("7"), Word("4")>>,
             <<FlagEq(arg.name, "7")>>}
      [] OTHER -> {}

\* the groups of argument strings a command line is made of: the path of
\* the default file, --help, -h, the flags of the schema, the other
\* spelling of a flag, and a flag no field has
Units(c, hyphen) ==
    LET arguments == parse_params(c, <<>>, FALSE, hyphen)
    IN {<<Word("f")>>, <<Flag(help)>>, <<ShortHelp>>,
        <<Flag(unk)>>, <<Flag(unk), Word("v")>>, <<FlagEq(unk, "v")>>}
       \cup UNION {ArgumentUnits(arguments[i], hyphen) :
                    i \in 1..Len(arguments)}

RECURSIVE ArgLists(_, _, _)
ArgLists(c, hyphen, n) ==
    IF n = 0 THEN {<<>>}
    ELSE LET shorter == ArgLists(c, hyphen, n - 1)
         IN shorter \cup {l \o u : l \in shorter, u \in Units(c, hyphen)}

\* the contents of the default file: a mapping over the keys of the schema,
\* or nothing at all (an empty file loads as None)
YamlEntries(c) ==
    CASE c = "Train" -> {<<<<batch_size>>, IntV(2)>>, <<<<n_epochs>>, IntV(4)>>,
                         <<<<n_epochs>>, StrV("abc")>>}
      [] c = "Model" -> {<<<<use_mlp>>, BoolV(FALSE)>>, <<<<n_cnn>>, IntV(2)>>}
      [] c = "Config" -> {<<<<inner, name>>, StrV("y")>>,
                          <<<<optim, lr>>, IntV(4)>>}
      [] c = "Data" -> {<<<<typed_list>>, ListV(<<IntV(2)>>)>>,
                        <<<<untyped_list>>, ListV(<<StrV("y")>>)>>}
      [] c = "Dist" -> {<<<<distribution>>, StrV("Uniform")>>,
                        <<<<distribution>>, StrV("Dirichlet")>>,
                        <<<<level>>, IntV(4)>>, <<<<level>>, IntV(7)>>}
      [] c = "Run" -> {<<<<inner, name>>, StrV("y")>>,
                       <<<<inner, number>>, IntV(4)>>}

YamlDocs(c) ==
    {NestedOf(es) : es \in {x \in SUBSET YamlEntries(c) :
        \A e, f \in x : e # f => e[1] # f[1]}} \cup {NoneV}

DiffPrintModes == {"none", "tree", "tree_dim", "tree_skip"}
\* the modes with "tree" in diff_print_mode, config_base.py:347
TreeModes == {"tree", "tree_dim", "tree_skip"}

-----------------------------------------------------------------------------
(* print_diff_to_default, config_base.py:343-359, and the tree of         *)
(* printers/diff.py                                                        *)

\* the singleton _NOT_PROVIDED of utils.py, lines 14-19: an instance of the
\* class utils.NOT_PROVIDED_CLASS, another object than the singleton of
\* config_base.py
utils_NOT_PROVIDED == [kind |-> "NOT_PROVIDED", module |-> "utils"]

\* utils.get_default_dict, lines 46-61: a required leaf gets the marker, a
\* field whose annotation or default is a model gets the default mapping of
\* that model's class
RECURSIVE get_default_dict(_, _)
get_default_dict(model, not_provided_value) ==
    LET fs == model_fields(model)
        field(k) == fs[CHOOSE i \in 1..Len(fs) : fs[i].name = k]
    IN DictV([k \in {fs[i].name : i \in 1..Len(fs)} |->
            IF field(k).tp = "model"
            THEN get_default_dict(field(k).model, not_provided_value)
            ELSE IF field(k).required THEN not_provided_value
            ELSE field(k).default])

\* instance.model_dump(): the mapping of the fields, a nested model dumped
\* in turn
RECURSIVE model_dump(_, _)
model_dump(c, self) ==
    LET fs == model_fields(c)
        field(k) == fs[CHOOSE i \in 1..Len(fs) : fs[i].name = k]
    IN DictV([k \in Keys(self) |->
            IF field(k).tp = "model"
            THEN model_dump(field(k).model, self.items[k])
            ELSE self.items[k]])

\* sorted(keys) on the field names of the schemas, by the names they
\* abbreviate
SortedNames ==
    <<batch_size, distribution, inner, level, lr, n_cnn, n_epochs, name,
      number, optim, plain_list, typed_list, untyped_list, use_mlp>>
sorted(keys) == SelectSeq(SortedNames, LAMBDA k : k \in keys)

\* f"[{i}]" for an index below ten
IndexKey(i) ==
    <<"[", <<"0", "1", "2", "3", "4", "5", "6", "7", "8", "9">>[i + 1], "]">>

\* one node of the rich Tree, at its depth below the root, in the order the
\* nodes are added
Node(depth, form, key, value, style) ==
    [depth |-> depth, form |-> form, key |-> key, value |-> value,
     style |-> style]

RECURSIVE Concat(_)
Concat(seqs) ==
    IF seqs = <<>> THEN <<>> ELSE Head(seqs) \o Concat(Tail(seqs))

\* get_value_style, lines 36-45
get_value_style(value) ==
    CASE value.kind = "none" -> "bright_cyan"
      [] value.kind = "bool" -> "bright_cyan"
      [] value.kind = "int" -> "bright_magenta"
      [] value.kind = "str" -> "green"
      [] value.kind = "list" -> "bright_cyan"
      [] value.kind = "dict" -> "bright_blue"
      [] OTHER -> "default"

\* create_value_text with format_value, lines 67-83: the key alone for a
\* mapping or a list, the key and the repr of the value otherwise
create_value_text(depth, key, value, style) ==
    IF value.kind \in {"dict", "list"}
    THEN Node(depth, "key", key, NoneV, style)
    ELSE Node(depth, "key_value", key, value, style)

\* add_dict_to_tree and add_list_to_tree, lines 85-106
RECURSIVE add_dict_to_tree(_, _, _)
RECURSIVE add_list_to_tree(_, _, _)
add_dict_to_tree(d, depth, style) ==
    LET ks == sorted(Keys(d))
    IN Concat([i \in 1..Len(ks) |->
            <<create_value_text(depth, ks[i], d.items[ks[i]], style)>>
            \o (CASE d.items[ks[i]].kind = "dict" ->
                        add_dict_to_tree(d.items[ks[i]], depth + 1, style)
                  [] d.items[ks[i]].kind = "list" ->
                        add_list_to_tree(d.items[ks[i]], depth + 1, style)
                  [] OTHER -> <<>>)])
add_list_to_tree(lst, depth, style) ==
    Concat([i \in 1..Len(lst.elems) |->
        IF lst.elems[i].kind = "dict"
        THEN <<Node(depth, "key", IndexKey(i - 1), NoneV, style)>>
             \o add_dict_to_tree(lst.elems[i], depth + 1, style)
        ELSE <<Node(depth, "index", IndexKey(i - 1), lst.elems[i], style)>>])

\* the children of a removed or an added key, lines 181-187 and 191-197
OneSided(value, depth, style) ==
    CASE value.kind = "dict" -> add_dict_to_tree(value, depth, style)
      [] value.kind = "list" -> add_list_to_tree(value, depth, style)
      [] OTHER -> <<create_value_text(depth, <<"value">>, value, style)>>

\* create_diff_tree, lines 48-199, with compare_values, lines 108-163
RECURSIVE create_diff_tree(_, _, _, _, _)
RECURSIVE compare_values(_, _, _, _, _, _)
compare_values(key, v1, v2, depth, dim_unchanged, skip_unchanged) ==
    CASE v2.kind = "dict" ->
            (CASE v1.kind = "dict" ->
                    <<Node(depth, "key", key, NoneV, "bold")>>
                    \o create_diff_tree(v1, v2, depth + 1, dim_unchanged,
                                        skip_unchanged)
               [] v1 = utils_NOT_PROVIDED ->
                    <<Node(depth, "key", key, NoneV, "bold")>>
                    \o create_diff_tree(
                            DictV([k \in Keys(v2) |-> utils_NOT_PROVIDED]),
                            v2, depth + 1, dim_unchanged, skip_unchanged)
               [] OTHER -> <<>>)
      [] v2.kind # "dict" /\ v1.kind = "list" /\ v2.kind = "list" ->
            <<Node(depth, "key", key, NoneV, "bold")>>
            \o (IF v1 = v2
                THEN IF skip_unchanged THEN <<>>
                     ELSE [i \in 1..Len(v1.elems) |->
                            create_value_text(depth + 1, IndexKey(i - 1),
                                v1.elems[i],
                                IF dim_unchanged THEN "dim"
                                ELSE get_value_style(v1))]
                ELSE <<Node(depth + 1, "previous_header", <<>>, NoneV,
                            "deep_pink2")>>
                     \o [i \in 1..Len(v1.elems) |->
                            create_value_text(depth + 2, IndexKey(i - 1),
                                              v1.elems[i], "deep_pink2")]
                     \o <<Node(depth + 1, "current_header", <<>>, NoneV,
                               "turquoise2")>>
                     \o [i \in 1..Len(v2.elems) |->
                            create_value_text(depth + 2, IndexKey(i - 1),
                                              v2.elems[i], "turquoise2")])
      [] OTHER ->
            IF v1 = v2
            THEN IF skip_unchanged THEN <<>>
                 ELSE <<create_value_text(depth, key, v1,
                            IF dim_unchanged THEN "dim"
                            ELSE get_value_style(v1))>>
            ELSE IF v1 = utils_NOT_PROVIDED
            THEN <<Node(depth, "assigned", key, v2, "yellow bold")>>
            ELSE <<Node(depth, "key", key, NoneV, "yellow bold"),
                   Node(depth + 1, "previous", <<>>, v1, "deep_pink2"),
                   Node(depth + 1, "current", <<>>, v2, "turquoise2")>>

create_diff_tree(d1, d2, depth, dim_unchanged, skip_unchanged) ==
    LET all_keys == sorted(Keys(d1) \cup Keys(d2))
        part(key) ==
            IF key \in Keys(d1) /\ key \in Keys(d2)
            THEN compare_values(key, d1.items[key], d2.items[key], depth,
                                dim_unchanged, skip_unchanged)
            ELSE IF key \in Keys(d1)
            THEN <<Node(depth, "removed", key, NoneV, "red")>>
                 \o OneSided(d1.items[key], depth + 1, "red")
            ELSE <<Node(depth, "added", key, NoneV, "blue")>>
                 \o OneSided(d2.items[key], depth + 1, "blue")
    IN Concat([i \in 1..Len(all_keys) |-> part(all_keys[i])])

\* print_tree_diff, lines 202-274: the tree under a root named after the
\* class, beside a legend that explains unchanged values unless they are
\* skipped
print_tree_diff(dict1, dict2, root_name, dim_unchanged, skip_unchanged) ==
    [title |-> "Guide",
     root |-> root_name,
     tree |-> create_diff_tree(dict1, dict2, 1, dim_unchanged,
                               skip_unchanged),
     legend_unchanged |-> IF skip_unchanged THEN "none"
                          ELSE IF dim_unchanged THEN "dim" ELSE "default"]

\* print_diff_to_default, lines 343-359: what it prints; "tree" is a
\* substring of every mode but "none"
print_diff_to_default(c, incoming, mode) ==
    IF mode \in TreeModes
    THEN <<print_tree_diff(get_default_dict(c, NOT_PROVIDED), incoming, c,
                           mode = "tree_dim", mode = "tree_skip")>>
    ELSE <<>>

-----------------------------------------------------------------------------
(* print_help, printers/help.py:118-170 *)

\* utils.get_field_info, lines 64-138: an entry for every field, a nested
\* model's fields after the entry of the field that holds it; the recursive
\* call passes the prefix alone, so sep and underscore_to_hyphen have their
\* defaults "." and False below the first level
RECURSIVE get_field_info(_, _, _, _)
RECURSIVE FieldInfoItems(_, _, _, _, _, _)
FieldInfoItems(fields, i, prefix, sep, underscore_to_hyphen, result) ==
    IF i > Len(fields) THEN result
    ELSE LET field == fields[i]
             field_name == IF underscore_to_hyphen
                           THEN Replace(field.name, "_", "-")
                           ELSE field.name
             full_path == IF prefix # <<>> THEN prefix \o field_name
                          ELSE field_name
             own == DictSet(result, full_path, field)
         IN FieldInfoItems(fields, i + 1, prefix, sep, underscore_to_hyphen,
                IF field.tp = "model"
                THEN DictUpdate(own,
                        get_field_info(field.model, full_path \o <<sep>>,
                                       ".", FALSE), 1)
                ELSE own)
get_field_info(model_cls, prefix, sep, underscore_to_hyphen) ==
    FieldInfoItems(model_fields(model_cls), 1, prefix, sep,
                   underscore_to_hyphen, <<>>)

\* create_aligned_tree_and_table, lines 17-103, called without sep and
\* skip_parent_key: the rows of the table, one "--<key>" for every key whose
\* path no earlier key has put into the tree
create_aligned_tree_and_table(fields) ==
    LET paths(key) == {key} \cup {SubSeq(key, 1, j - 1) :
                                  j \in {m \in 1..Len(key) : key[m] = "."}}
        row(i) ==
            IF \E j \in 1..(i - 1) : fields[i][1] \in paths(fields[j][1])
            THEN <<>>
            ELSE <<[flag |-> fields[i][1],
                    status |-> IF fields[i][2].tp = "model" THEN NoneV
                               ELSE IF fields[i][2].required
                               THEN StrV("Required")
                               ELSE fields[i][2].default]>>
    IN Concat([i \in 1..Len(fields) |-> row(i)])

\* print_help as parse_args calls it, lines 148-157
print_help(model_class, underscore_to_hyphen, sep) ==
    [title |-> "Usage",
     tree |-> model_class,
     rows |-> create_aligned_tree_and_table(
                get_field_info(model_class, <<>>, sep, underscore_to_hyphen))]

-----------------------------------------------------------------------------
(* parse_args, config_base.py:292-341 *)

Inputs ==
    <<cls, require_default_file, replace_underscore_to_hyphen, args, files>>

\* lines 292-299: the parser is built and the command line parsed
ParseArgs ==
    /\ pc = "start"
    /\ LET r == parse_all_args_as_dict(
                    Parser(cls, require_default_file,
                           replace_underscore_to_hyphen), args)
       IN CASE r.status = "ok" ->
                /\ parsed_dict' = r.ns
                /\ pc' = "help"
                /\ UNCHANGED exit_code
            [] r.status = "exit" ->
                /\ pc' = "exited"
                /\ exit_code' = r.code
                /\ UNCHANGED parsed_dict
            [] r.status = "raised" ->
                /\ pc' = "raised"
                /\ exit_code' = 1
                /\ UNCHANGED parsed_dict
    /\ UNCHANGED <<Inputs, heap, suspended, console, retval, diff_print_mode, yaml_file, file_dict,
                   nested_args_dict, validation, instance, rendered>>

\* lines 301-304
CheckHelp ==
    /\ pc = "help"
    /\ IF Truthy(DictValue(parsed_dict, help))
       THEN /\ rendered' = Append(rendered, "help")
            /\ console' = Append(console,
                                 print_help(cls, replace_underscore_to_hyphen,
                                            Sep))
            /\ exit_code' = 0
            /\ pc' = "exited"
            /\ UNCHANGED parsed_dict
       ELSE /\ parsed_dict' = DictDel(parsed_dict, help)
            /\ pc' = "load"
            /\ UNCHANGED <<rendered, console, exit_code>>
    /\ UNCHANGED <<Inputs, heap, suspended, retval, diff_print_mode, yaml_file, file_dict,
                   nested_args_dict, validation, instance>>

\* lines 306-309: the default file is opened and loaded
ReadDefaultFile ==
    /\ pc = "load"
    /\ require_default_file
    /\ \E doc \in YamlDocs(cls) :
        /\ yaml_file' = doc
        /\ file_dict' = doc
    /\ parsed_dict' = DictDel(parsed_dict, config_file_path)
    /\ pc' = "rehydrate"
    /\ UNCHANGED <<Inputs, heap, suspended, console, retval, diff_print_mode, nested_args_dict, validation,
                   instance, exit_code, rendered>>

\* a failure that is noted while the call goes on with no file contents
ReadDefaultFileFailsAndGoesOn ==
    /\ pc = "load"
    /\ require_default_file
    /\ yaml_file' = EmptyDict
    /\ file_dict' = EmptyDict
    /\ parsed_dict' = DictDel(parsed_dict, config_file_path)
    /\ pc' = "rehydrate"
    /\ exit_code' = 1
    /\ UNCHANGED <<Inputs, heap, suspended, console, retval, diff_print_mode, nested_args_dict,
                   validation, instance, rendered>>

\* line 307: open() raises OSError
ReadDefaultFileFails ==
    /\ pc = "load"
    /\ require_default_file
    /\ pc' = "raised"
    /\ exit_code' = 1
    /\ UNCHANGED <<Inputs, heap, suspended, console, retval, diff_print_mode, parsed_dict, yaml_file, file_dict,
                   nested_args_dict, validation, instance, rendered>>

\* a file_dict that is one mapping shared by the calls, not a new one
NoDefaultFileShared ==
    /\ pc = "load"
    /\ ~require_default_file
    /\ yaml_file' = EmptyDict
    /\ file_dict' = IF suspended # NoneV /\ IsDict(suspended.file_dict)
                    THEN suspended.file_dict ELSE EmptyDict
    /\ pc' = "rehydrate"
    /\ UNCHANGED <<Inputs, heap, suspended, console, retval, diff_print_mode, parsed_dict,
                   nested_args_dict, validation, instance, exit_code, rendered>>

\* lines 310-311
NoDefaultFile ==
    /\ pc = "load"
    /\ ~require_default_file
    /\ yaml_file' = EmptyDict
    /\ file_dict' = EmptyDict
    /\ pc' = "rehydrate"
    /\ UNCHANGED <<Inputs, heap, suspended, console, retval, diff_print_mode, parsed_dict, nested_args_dict,
                   validation, instance, exit_code, rendered>>

\* lines 313-321
BuildNested ==
    /\ pc = "rehydrate"
    /\ LET r == Rehydrate(parsed_dict, 1, EmptyDict)
       IN IF r = Raised
          THEN /\ pc' = "raised"
               /\ exit_code' = 1
               /\ UNCHANGED nested_args_dict
          ELSE /\ nested_args_dict' = r
               /\ pc' = "merge"
               /\ UNCHANGED exit_code
    /\ UNCHANGED <<Inputs, heap, suspended, console, retval, diff_print_mode, parsed_dict, yaml_file, file_dict,
                   validation, instance, rendered>>

\* a validation step that goes on to the diff after printing the errors
ValidateNoExit ==
    /\ pc = "validate"
    /\ LET r == model_validate(cls, file_dict, <<>>)
       IN /\ validation' = r
          /\ instance' = r.value
          /\ pc' = "print_diff"
          /\ rendered' = IF r.kind = "ok" THEN rendered
                         ELSE Append(rendered, "errors")
          /\ console' = IF r.kind = "ok" THEN console
                        ELSE Append(console,
                                    print_validation_errors(cls, r.errors))
          /\ UNCHANGED exit_code
    /\ UNCHANGED <<Inputs, heap, suspended, retval, diff_print_mode, parsed_dict, yaml_file, file_dict,
                   nested_args_dict>>

\* lines 333-337
Validate ==
    /\ pc = "validate"
    /\ LET r == model_validate(cls, file_dict, <<>>)
       IN /\ validation' = r
          /\ IF r.kind = "ok"
             THEN /\ instance' = r.value
                  /\ pc' = "print_diff"
                  /\ UNCHANGED <<rendered, console, exit_code>>
             ELSE /\ rendered' = Append(rendered, "errors")
                  /\ console' = Append(console,
                                       print_validation_errors(cls, r.errors))
                  /\ exit_code' = 1
                  /\ pc' = "exited"
                  /\ UNCHANGED instance
    /\ UNCHANGED <<Inputs, heap, suspended, retval, diff_print_mode, parsed_dict, yaml_file, file_dict,
                   nested_args_dict>>

\* lines 339-341 and print_diff_to_default, lines 343-359; the keyword
\* argument diff_print_mode is drawn where it is read
PrintDiffAndReturn ==
    /\ pc = "print_diff"
    /\ \E mode \in DiffPrintModes :
        /\ diff_print_mode' = mode
        /\ rendered' = IF mode \in TreeModes THEN Append(rendered, "diff")
                       ELSE rendered
        /\ console' = console \o print_diff_to_default(
                            cls, model_dump(cls, instance), mode)
    /\ pc' = "returned"
    /\ retval' = instance
    /\ UNCHANGED <<Inputs, heap, suspended, parsed_dict, yaml_file, file_dict,
                   nested_args_dict, validation, instance, exit_code>>

Init ==
    /\ console = <<>>
    /\ heap = <<>>
    /\ suspended = NoneV
    /\ cls \in RootClasses
    /\ require_default_file \in BOOLEAN
    /\ replace_underscore_to_hyphen \in BOOLEAN
    /\ args \in ArgLists(cls, replace_underscore_to_hyphen, MaxArgs)
    /\ diff_print_mode = "tree"
    /\ pc = "start"
    /\ parsed_dict = <<>>
    /\ yaml_file = NoneV
    /\ file_dict = NoneV
    /\ nested_args_dict = EmptyDict
    /\ validation = NotValidated
    /\ instance = NoneV
    /\ exit_code = NoExit
    /\ rendered = <<>>
    /\ retval = NoneV
    /\ files = <<>>

Next ==
    \/ ParseArgs
    \/ CheckHelp
    \/ ReadDefaultFile
    \/ ReadDefaultFileFails
    \/ NoDefaultFile
    \/ BuildNested
    \/ Merge
    \/ Validate
    \/ PrintDiffAndReturn

Spec == Init /\ [][Next]_vars

\* parse_args on a schema with collection fields
InitCollections ==
    /\ console = <<>>
    /\ heap = <<>>
    /\ suspended = NoneV
    /\ cls = "Data"
    /\ require_default_file \in BOOLEAN
    /\ replace_underscore_to_hyphen \in BOOLEAN
    /\ args \in ArgLists(cls, replace_underscore_to_hyphen, MaxArgs)
    /\ files = <<>>
    /\ diff_print_mode = "tree"
    /\ pc = "start"
    /\ parsed_dict = <<>>
    /\ yaml_file = NoneV
    /\ file_dict = NoneV
    /\ nested_args_dict = EmptyDict
    /\ validation = NotValidated
    /\ instance = NoneV
    /\ exit_code = NoExit
    /\ rendered = <<>>
    /\ retval = NoneV

SpecCollections == InitCollections /\ [][Next]_vars

\* parse_args on a schema whose nested field declares a default instance
\* that differs from the defaults of the nested class
InitDefaults ==
    /\ console = <<>>
    /\ heap = <<>>
    /\ suspended = NoneV
    /\ cls = "Run"
    /\ require_default_file \in BOOLEAN
    /\ replace_underscore_to_hyphen \in BOOLEAN
    /\ args \in ArgLists(cls, replace_underscore_to_hyphen, MaxArgs)
    /\ files = <<>>
    /\ diff_print_mode = "tree"
    /\ pc = "start"
    /\ parsed_dict = <<>>
    /\ yaml_file = NoneV
    /\ file_dict = NoneV
    /\ nested_args_dict = EmptyDict
    /\ validation = NotValidated
    /\ instance = NoneV
    /\ exit_code = NoExit
    /\ rendered = <<>>
    /\ retval = NoneV

SpecDefaults == InitDefaults /\ [][Next]_vars

\* parse_args on a schema with Literal fields
InitLiterals ==
    /\ console = <<>>
    /\ heap = <<>>
    /\ suspended = NoneV
    /\ cls = "Dist"
    /\ require_default_file \in BOOLEAN
    /\ replace_underscore_to_hyphen \in BOOLEAN
    /\ args \in ArgLists(cls, replace_underscore_to_hyphen, MaxArgs)
    /\ files = <<>>
    /\ diff_print_mode = "tree"
    /\ pc = "start"
    /\ parsed_dict = <<>>
    /\ yaml_file = NoneV
    /\ file_dict = NoneV
    /\ nested_args_dict = EmptyDict
    /\ validation = NotValidated
    /\ instance = NoneV
    /\ exit_code = NoExit
    /\ rendered = <<>>
    /\ retval = NoneV

SpecLiterals == InitLiterals /\ [][Next]_vars

-----------------------------------------------------------------------------
(* two calls of parse_args on one class, on two threads *)

\* the arguments and locals of the running call
Running ==
    [cls |-> cls, require_default_file |-> require_default_file,
     replace_underscore_to_hyphen |-> replace_underscore_to_hyphen,
     args |-> args, diff_print_mode |-> diff_print_mode, pc |-> pc,
     parsed_dict |-> parsed_dict, yaml_file |-> yaml_file,
     file_dict |-> file_dict, nested_args_dict |-> nested_args_dict,
     validation |-> validation, instance |-> instance,
     exit_code |-> exit_code, rendered |-> rendered, console |-> console,
     retval |-> retval]

\* a call that has not taken a step
NotStarted(c, file_mode, hyphen, argv) ==
    [cls |-> c, require_default_file |-> file_mode,
     replace_underscore_to_hyphen |-> hyphen,
     args |-> argv, diff_print_mode |-> "tree", pc |-> "start",
     parsed_dict |-> <<>>, yaml_file |-> NoneV,
     file_dict |-> NoneV, nested_args_dict |-> EmptyDict,
     validation |-> NotValidated, instance |-> NoneV,
     exit_code |-> NoExit, rendered |-> <<>>, console |-> <<>>,
     retval |-> NoneV]

\* the scheduler takes the running call off and puts the other one on
Switch ==
    /\ suspended # NoneV
    /\ suspended' = Running
    /\ cls' = suspended.cls
    /\ require_default_file' = suspended.require_default_file
    /\ replace_underscore_to_hyphen' = suspended.replace_underscore_to_hyphen
    /\ args' = suspended.args
    /\ diff_print_mode' = suspended.diff_print_mode
    /\ pc' = suspended.pc
    /\ parsed_dict' = suspended.parsed_dict
    /\ yaml_file' = suspended.yaml_file
    /\ file_dict' = suspended.file_dict
    /\ nested_args_dict' = suspended.nested_args_dict
    /\ validation' = suspended.validation
    /\ instance' = suspended.instance
    /\ exit_code' = suspended.exit_code
    /\ rendered' = suspended.rendered
    /\ console' = suspended.console
    /\ retval' = suspended.retval
    /\ UNCHANGED <<files, heap>>

\* the command lines of the two calls: MaxArgs groups between them; both
\* calls are made with the flags spelled as the fields are
ArgListPairs(c, hyphen) ==
    UNION {ArgLists(c, hyphen, n) \X ArgLists(c, hyphen, MaxArgs - n) :
            n \in 0..MaxArgs}

InitTwo ==
    /\ console = <<>>
    /\ heap = <<>>
    /\ cls = "Model"
    /\ require_default_file \in BOOLEAN
    /\ replace_underscore_to_hyphen = FALSE
    /\ \E file_mode \in BOOLEAN :
        \E pair \in ArgListPairs(cls, replace_underscore_to_hyphen) :
            /\ args = pair[1]
            /\ suspended = NotStarted(cls, file_mode,
                                      replace_underscore_to_hyphen, pair[2])
    /\ files = <<>>
    /\ diff_print_mode = "tree"
    /\ pc = "start"
    /\ parsed_dict = <<>>
    /\ yaml_file = NoneV
    /\ file_dict = NoneV
    /\ nested_args_dict = EmptyDict
    /\ validation = NotValidated
    /\ instance = NoneV
    /\ exit_code = NoExit
    /\ rendered = <<>>
    /\ retval = NoneV

NextTwo ==
    \/ Next
    \/ Switch

SpecTwo == InitTwo /\ [][NextTwo]_vars

-----------------------------------------------------------------------------
(* load_from_yaml, config_base.py:169-180 *)

MaxIncludes == 2

\* a mapping with the merge key "<<: !include other": the keys of the
\* including mapping override those of the included one, key by key at the
\* top level (tests/test_include.py:50-67)
MergeKey(own, included) ==
    DictV([k \in Keys(own) \cup Keys(included) |->
        IF k \in Keys(own) THEN own.items[k] ELSE included.items[k]])

\* what the YAML loader returns for the first file of fs
RECURSIVE LoadYaml(_)
LoadYaml(fs) ==
    IF Len(fs) = 1 THEN fs[1]
    ELSE MergeKey(fs[1], LoadYaml(Tail(fs)))

\* a file alone (a mapping, or empty), or a mapping that includes a chain
RECURSIVE FileChains(_, _)
FileChains(c, n) ==
    IF n = 0 THEN {<<d>> : d \in YamlDocs(c)}
    ELSE FileChains(c, n - 1)
         \cup {<<d>> \o fs : d \in YamlDocs(c) \ {NoneV},
                             fs \in {x \in FileChains(c, n - 1) :
                                        x[Len(x)] # NoneV}}

\* lines 173-178: pydantic_yaml.parse_yaml_file_as(cls, path) loads the file
\* and validates what it holds
ParseYamlFile ==
    /\ pc = "start"
    /\ LET doc == LoadYaml(files)
           r == model_validate(cls, doc, <<>>)
       IN /\ yaml_file' = doc
          /\ validation' = r
          /\ IF r.kind = "ok"
             THEN /\ instance' = r.value
                  /\ pc' = "print_diff"
                  /\ UNCHANGED <<rendered, console, exit_code>>
             ELSE /\ rendered' = Append(rendered, "errors")
                  /\ console' = Append(console,
                                       print_validation_errors(cls, r.errors))
                  /\ exit_code' = 1
                  /\ pc' = "exited"
                  /\ UNCHANGED instance
    /\ UNCHANGED <<Inputs, heap, suspended, retval, diff_print_mode, parsed_dict, file_dict,
                   nested_args_dict>>

\* line 175: the file cannot be read, the error is not caught
ParseYamlFileFails ==
    /\ pc = "start"
    /\ pc' = "raised"
    /\ exit_code' = 1
    /\ UNCHANGED <<Inputs, heap, suspended, console, retval, diff_print_mode, parsed_dict, yaml_file,
                   file_dict, nested_args_dict, validation, instance,
                   rendered>>

\* line 180 and the end of the function: the diff is printed and the body
\* ends with no return statement, so the call returns None
LoadPrintDiff ==
    /\ pc = "print_diff"
    /\ \E mode \in DiffPrintModes :
        /\ diff_print_mode' = mode
        /\ rendered' = IF mode \in TreeModes THEN Append(rendered, "diff")
                       ELSE rendered
        /\ console' = console \o print_diff_to_default(
                            cls, model_dump(cls, instance), mode)
    /\ pc' = "returned"
    /\ retval' = NoneV
    /\ UNCHANGED <<Inputs, heap, suspended, parsed_dict, yaml_file, file_dict,
                   nested_args_dict, validation, instance, exit_code>>

InitLoad ==
    /\ console = <<>>
    /\ heap = <<>>
    /\ suspended = NoneV
    /\ cls \in RootClasses
    /\ require_default_file = FALSE
    /\ replace_underscore_to_hyphen = FALSE
    /\ args = <<>>
    /\ files \in FileChains(cls, MaxIncludes)
    /\ diff_print_mode = "tree"
    /\ pc = "start"
    /\ parsed_dict = <<>>
    /\ yaml_file = NoneV
    /\ file_dict = NoneV
    /\ nested_args_dict = EmptyDict
    /\ validation = NotValidated
    /\ instance = NoneV
    /\ exit_code = NoExit
    /\ rendered = <<>>
    /\ retval = NoneV

NextLoad ==
    \/ ParseYamlFile
    \/ ParseYamlFileFails
    \/ LoadPrintDiff

SpecLoad == InitLoad /\ [][NextLoad]_vars

-----------------------------------------------------------------------------
(* flatten, config_base.py:64-88, and flatten_dict, utils.py:35-43 *)

\* d.items() as a sequence; the mappings of the model keep no insertion
\* order, the keys are taken in one fixed order
RECURSIVE ItemsOf(_, _)
ItemsOf(d, ks) ==
    IF ks = {} THEN <<>>
    ELSE LET k == CHOOSE x \in ks : \A y \in ks : Len(x) < Len(y) \/ x = y
                    \/ (Len(x) = Len(y) /\ x = a)
         IN <<k>> \o ItemsOf(d, ks \ {k})

\* flatten_dict(d, parent_key, sep): the list `items` after the loop over
\* the keys ks[i..]
RECURSIVE flatten_dict(_, _)
RECURSIVE FlattenItems(_, _, _, _)
FlattenItems(d, ks, i, parent_key) ==
    IF i > Len(ks) THEN <<>>
    ELSE LET k == ks[i]
             v == d.items[k]
             new_key == IF parent_key # <<>> THEN parent_key \o <<Sep>> \o k
                        ELSE k
             here == IF IsDict(v) THEN flatten_dict(v, new_key)
                     ELSE <<<<new_key, v>>>>
         IN here \o FlattenItems(d, ks, i + 1, parent_key)

flatten_dict(d, parent_key) ==
    FlattenItems(d, ItemsOf(d, Keys(d)), 1, parent_key)

\* self.flatten(): the dumped fields of the object are flattened
Flatten ==
    /\ pc = "flatten"
    /\ parsed_dict' = flatten_dict(instance, <<>>)
    /\ pc' = "rehydrate"
    /\ UNCHANGED <<Inputs, heap, suspended, console, retval, diff_print_mode, yaml_file, file_dict,
                   nested_args_dict, validation, instance, exit_code,
                   rendered>>

InitFlatten ==
    /\ console = <<>>
    /\ heap = <<>>
    /\ suspended = NoneV
    /\ cls = "Config"
    /\ require_default_file = FALSE
    /\ replace_underscore_to_hyphen = FALSE
    /\ args = <<>>
    /\ files = <<>>
    /\ diff_print_mode = "none"
    /\ pc = "flatten"
    /\ parsed_dict = <<>>
    /\ yaml_file = NoneV
    /\ file_dict = NoneV
    /\ nested_args_dict = EmptyDict
    /\ validation = NotValidated
    /\ instance \in MergeInputs
    /\ exit_code = NoExit
    /\ rendered = <<>>
    /\ retval = NoneV

NextFlatten ==
    \/ Flatten
    \/ BuildNested

SpecFlatten == InitFlatten /\ [][NextFlatten]_vars

-----------------------------------------------------------------------------
(* reading nested mappings by path *)

\* the paths of m that end in a value that is not a mapping
RECURSIVE LeafPaths(_)
LeafPaths(m) ==
    IF ~IsDict(m) THEN {}
    ELSE UNION {IF IsDict(m.items[k])
                THEN {<<k>> \o p : p \in LeafPaths(m.items[k])}
                ELSE {<<k>>} : k \in Keys(m)}

\* every path of m, to a leaf or to a mapping
RECURSIVE AllPaths(_)
AllPaths(m) ==
    IF ~IsDict(m) THEN {}
    ELSE UNION {{<<k>>} \cup {<<k>> \o p : p \in AllPaths(m.items[k])} :
                k \in Keys(m)}

RECURSIVE At(_, _)
At(m, p) == IF Len(p) = 1 THEN m.items[p[1]] ELSE At(m.items[p[1]], Tail(p))

ProperPrefixes(p) == {SubSeq(p, 1, n) : n \in 1..(Len(p) - 1)}

-----------------------------------------------------------------------------
(* the merge: yaml_file is base, nested_args_dict is overlay, and file_dict *)
(* at "validate" is the merged mapping                                      *)

\* C1: every leaf key, at any depth, that base and overlay both hold is
\* held by the merged mapping with the overlay's value.
MergePrecedence ==
    pc = "validate" =>
        \A p \in LeafPaths(yaml_file) \cap LeafPaths(nested_args_dict) :
            /\ p \in LeafPaths(file_dict)
            /\ At(file_dict, p) = At(nested_args_dict, p)

MergePrecedenceWitness ==
    /\ pc = "validate"
    /\ \E p \in LeafPaths(yaml_file) \cap LeafPaths(nested_args_dict) :
        /\ Len(p) = 2
        /\ At(yaml_file, p) # At(nested_args_dict, p)
        /\ At(file_dict, p) = At(nested_args_dict, p)

OnlyIn(m, other) == LeafPaths(m) \ AllPaths(other)

\* C2 as stated: every leaf key only base holds keeps base's value, every
\* leaf key only overlay holds has overlay's value.
MergePreservationAsStated ==
    pc = "validate" =>
        /\ \A p \in OnlyIn(yaml_file, nested_args_dict) :
            p \in LeafPaths(file_dict) /\ At(file_dict, p) = At(yaml_file, p)
        /\ \A p \in OnlyIn(nested_args_dict, yaml_file) :
            /\ p \in LeafPaths(file_dict)
            /\ At(file_dict, p) = At(nested_args_dict, p)

\* C2, amended: a leaf key only base holds keeps base's value unless the
\* overlay holds a non-mapping at one of its ancestor keys; a leaf key only
\* overlay holds has overlay's value; siblings under a mapping that both
\* sides hold survive.
MergePreservation ==
    pc = "validate" =>
        /\ \A p \in OnlyIn(yaml_file, nested_args_dict) :
            (ProperPrefixes(p) \cap LeafPaths(nested_args_dict) = {}) =>
                /\ p \in LeafPaths(file_dict)
                /\ At(file_dict, p) = At(yaml_file, p)
        /\ \A p \in OnlyIn(nested_args_dict, yaml_file) :
            /\ p \in LeafPaths(file_dict)
            /\ At(file_dict, p) = At(nested_args_dict, p)

MergePreservationWitness ==
    /\ pc = "validate"
    /\ \E p \in OnlyIn(yaml_file, nested_args_dict) :
       \E q \in OnlyIn(nested_args_dict, yaml_file) :
        /\ Len(p) = 2 /\ Len(q) = 2 /\ p[1] = q[1]
        /\ At(file_dict, p) = At(yaml_file, p)
        /\ At(file_dict, q) = At(nested_args_dict, q)

\* C3: merging with an empty overlay yields base, merging an empty base
\* with an overlay yields a mapping equal to the overlay.
MergeIdentity ==
    pc = "validate" =>
        /\ (nested_args_dict = EmptyDict => file_dict = yaml_file)
        /\ (yaml_file = EmptyDict => file_dict = nested_args_dict)

MergeIdentityWitness ==
    /\ pc = "validate"
    /\ yaml_file = EmptyDict
    /\ \E p \in LeafPaths(nested_args_dict) : Len(p) = 2
    /\ \E k \in Keys(nested_args_dict) : nested_args_dict.items[k] = EmptyDict
    /\ file_dict = nested_args_dict

-----------------------------------------------------------------------------
(* the command line and the schema as the claims speak of them *)

\* the paths of the leaf fields of a schema, nested schemas expanded
RECURSIVE LeafFieldPaths(_)
LeafFieldPaths(c) ==
    UNION {LET f == FieldNamed(c, n)
           IN IF f.tp = "model"
              THEN {<<n>> \o q : q \in LeafFieldPaths(f.model)}
              ELSE {<<n>>} : n \in FieldNames(c)}

\* the field a path leads to
RECURSIVE FieldAt(_, _)
FieldAt(c, p) ==
    IF Len(p) = 1 THEN FieldNamed(c, p[1])
    ELSE FieldAt(FieldNamed(c, p[1]).model, Tail(p))

\* the default the schema declares for a leaf: its own default, or for a
\* leaf of a nested schema the value in the default instance of the
\* enclosing field
DeclaredDefault(c, p) ==
    IF Len(p) = 1 THEN FieldNamed(c, p[1]).default
    ELSE At(FieldNamed(c, p[1]).default, Tail(p))

RECURSIVE JoinPath(_)
JoinPath(p) ==
    IF Len(p) = 1 THEN p[1] ELSE p[1] \o <<Sep>> \o JoinPath(Tail(p))

\* the flag of a leaf field, in the spelling of the mode
FlagOf(p) ==
    IF replace_underscore_to_hyphen THEN Replace(JoinPath(p), "_", "-")
    ELSE JoinPath(p)

IsFlagOf(t, p) ==
    /\ t.kind = "flag"
    /\ \/ t.name = FlagOf(p)
       \/ FieldAt(cls, p).tp = "bool" /\ t.name = NoPrefix \o FlagOf(p)

FlagGiven(p) == \E i \in 1..Len(args) : IsFlagOf(args[i], p)

\* what the last occurrence of the flag of p says, as a raw value
GivenRaw(p) ==
    LET i == CHOOSE j \in 1..Len(args) :
                /\ IsFlagOf(args[j], p)
                /\ \A m \in (j + 1)..Len(args) : ~IsFlagOf(args[m], p)
    IN IF FieldAt(cls, p).tp = "bool"
       THEN BoolV(args[i].name = FlagOf(p))
       ELSE IF args[i].eq THEN StrV(args[i].text)
       ELSE StrV(args[i + 1].text)

\* the value of the field for a raw or YAML value that validates
Coerced(tp, v) ==
    IF tp = "int" /\ v.kind = "str" THEN ParseInt(v.s) ELSE v

\* C4 as stated: with a default file, every leaf field of the returned
\* object holds the command-line value when its flag is given, else the
\* YAML value when the file has the key, else the declared default.
PrecedenceAsStated ==
    (pc = "returned" /\ require_default_file) =>
        \A p \in LeafFieldPaths(cls) :
            At(instance, p) =
                IF FlagGiven(p) THEN Coerced(FieldAt(cls, p).tp, GivenRaw(p))
                ELSE IF p \in LeafPaths(yaml_file)
                THEN Coerced(FieldAt(cls, p).tp, At(yaml_file, p))
                ELSE DeclaredDefault(cls, p)

-----------------------------------------------------------------------------
(* the sentinel *)

AllValues(m) == {At(m, p) : p \in AllPaths(m)}

SentinelEntries ==
    {i \in 1..Len(parsed_dict) : parsed_dict[i][2] = NOT_PROVIDED}

\* C5: the sentinel is in no value of the nested mapping built from the
\* parsed arguments, of the merged mapping or of the returned object, and
\* an argument still holding it has no entry in the nested mapping.
SentinelNeverLeaks ==
    /\ NOT_PROVIDED \notin AllValues(nested_args_dict)
    /\ NOT_PROVIDED \notin AllValues(file_dict)
    /\ NOT_PROVIDED \notin AllValues(instance)
    /\ pc \in {"merge", "validate", "print_diff", "returned"} =>
        \A i \in SentinelEntries :
            Split(parsed_dict[i][1], Sep) \notin LeafPaths(nested_args_dict)

SentinelNeverLeaksWitness ==
    /\ pc = "returned"
    /\ SentinelEntries # {}
    /\ \E i \in 1..Len(parsed_dict) : parsed_dict[i][2] # NOT_PROVIDED
    /\ NOT_PROVIDED \notin AllValues(instance)

-----------------------------------------------------------------------------
(* required fields, help, unrecognised flags *)

\* C6 as stated: with no default file, a required field whose flag is not
\* on the command line keeps parse_args from returning.
RequiredAsStated ==
    (/\ ~require_default_file
     /\ \E p \in LeafFieldPaths(cls) :
            FieldAt(cls, p).required /\ ~FlagGiven(p))
    => pc # "returned"

HelpGiven ==
    \E i \in 1..Len(args) :
        \/ args[i].kind = "short"
        \/ args[i].kind = "flag" /\ args[i].name = help

\* C7 as stated: with --help or -h among the arguments the call prints the
\* help and exits with status 0, and nothing else happens.
HelpAsStated ==
    (HelpGiven /\ pc \notin {"start", "help"}) =>
        /\ pc = "exited"
        /\ exit_code = 0
        /\ rendered = <<"help">>
        /\ yaml_file = NoneV
        /\ validation = NotValidated

\* the unrecognised flags whose key is no field of the schema, and no other
\* flag has the same key
UnknownFlags ==
    {i \in 1..Len(args) :
        /\ args[i].kind = "flag"
        /\ \A p \in LeafFieldPaths(cls) : ~IsFlagOf(args[i], p)
        /\ Split(Dest(args[i].name), Sep)[1] \notin FieldNames(cls) \cup {help}
        /\ \A j \in 1..Len(args) :
            (j # i /\ args[j].kind = "flag") =>
                Dest(args[j].name) # Dest(args[i].name)}

\* a word that is the value of the flag of a field written before it
ValueOfFlag(j) ==
    /\ j > 1 /\ args[j - 1].kind = "flag" /\ ~args[j - 1].eq
    /\ \E p \in LeafFieldPaths(cls) :
        IsFlagOf(args[j - 1], p) /\ FieldAt(cls, p).tp # "bool"

FreeWords == {j \in 1..Len(args) : args[j].kind = "word" /\ ~ValueOfFlag(j)}

\* the three forms of the claim: --key=value, --key value (the value not
\* taken as the path of the default file), bare --key (no free word after)
HasForm(i) ==
    \/ args[i].eq
    \/ /\ i < Len(args) /\ args[i + 1].kind = "word"
       /\ (~require_default_file \/ \E j \in FreeWords : j < i)
    \/ /\ ~(i < Len(args) /\ args[i + 1].kind = "word")
       /\ ~\E j \in FreeWords : j > i

CapturedValue(i) ==
    IF args[i].eq THEN StrV(args[i].text)
    ELSE IF i < Len(args) /\ args[i + 1].kind = "word"
    THEN StrV(args[i + 1].text)
    ELSE BoolV(TRUE)

Merged == validation # NotValidated \/ pc \in {"validate", "print_diff"}

Captured(i) ==
    LET key == Split(Dest(args[i].name), Sep)
    IN key \in LeafPaths(file_dict) /\ At(file_dict, key) = CapturedValue(i)

\* C8 as stated: an unrecognised flag is captured as key -> raw string
\* (True when bare), merged, and is no reason for parse_args to fail.
UnknownFlagsAsStated ==
    \A i \in UnknownFlags :
        (HasForm(i) /\ Merged) =>
            /\ Captured(i)
            /\ \A e \in validation.errors :
                ~(e.type = "extra_forbidden" /\ e.loc[1] = Dest(args[i].name))

\* C8, amended: an unrecognised flag is captured as key -> raw string (True
\* when bare) and merged with the typed fields; ConfigBase forbids extra
\* keys, so validation rejects the key and the call exits with status 1
\* without returning an object.
UnknownFlagsRejected ==
    \A i \in UnknownFlags :
        (HasForm(i) /\ Merged) =>
            /\ Captured(i)
            /\ validation # NotValidated =>
                /\ [loc |-> <<Dest(args[i].name)>>, type |-> "extra_forbidden"]
                        \in validation.errors
                /\ pc = "exited" /\ exit_code = 1 /\ instance = NoneV

UnknownFlagsRejectedWitness ==
    /\ pc = "exited"
    /\ validation.kind = "error"
    /\ \E i \in UnknownFlags :
        /\ ~args[i].eq /\ HasForm(i) /\ Captured(i)
        /\ CapturedValue(i) # BoolV(TRUE)
        /\ validation.errors =
            {[loc |-> <<Dest(args[i].name)>>, type |-> "extra_forbidden"]}

-----------------------------------------------------------------------------
(* validation *)

\* C9: when every field validates, validation succeeds exactly when every
\* declared mutually exclusive set has exactly one truthy member.
MutualExclusivity ==
    validation # NotValidated =>
        LET fields == ValidateFields(cls, file_dict, <<>>)
        IN fields.errors = {} =>
            (validation.kind = "ok" <=>
                \A exclusive_set \in mutually_exclusive_sets(cls) :
                    Cardinality({k \in exclusive_set :
                                    Truthy(fields.self.items[k])}) = 1)

MutualExclusivityWitness ==
    /\ validation.kind = "error"
    /\ pc = "exited"
    /\ LET fields == ValidateFields(cls, file_dict, <<>>)
       IN /\ fields.errors = {}
          /\ \E exclusive_set \in mutually_exclusive_sets(cls) :
                \A k \in exclusive_set : ~Truthy(fields.self.items[k])

\* C10: an object is returned only when validation succeeded; a failed
\* validation prints the diagnostic and exits with a non-zero status, with
\* no object and no diff.
AllOrNothing ==
    /\ (pc = "returned" \/ instance # NoneV) =>
        validation.kind = "ok" /\ instance = validation.value
    /\ validation.kind = "error" =>
        /\ pc = "exited"
        /\ exit_code # NoExit /\ exit_code # 0
        /\ rendered = <<"errors">>
        /\ instance = NoneV

AllOrNothingWitness ==
    /\ validation.kind = "error"
    /\ pc = "exited"
    /\ rendered = <<"errors">>
    /\ Cardinality(validation.errors) >= 2

-----------------------------------------------------------------------------
(* load_from_yaml *)

\* the file that decides key n: the first of the include chain that sets it
Includer(n) ==
    CHOOSE i \in 1..Len(files) :
        /\ n \in Keys(files[i])
        /\ \A j \in 1..(i - 1) : n \notin Keys(files[j])

\* the value field n of class c holds after validating v
FieldValue(c, n, v) ==
    IF FieldNamed(c, n).tp = "model"
    THEN model_validate(FieldNamed(c, n).model, v, <<n>>).value
    ELSE ValidateLeaf(FieldNamed(c, n).tp, v, <<n>>).value

\* the object o holds the values of the files: the including file's value
\* where it sets the key, the included file's value where only it does
HoldsFileValues(o) ==
    /\ IsDict(o)
    /\ \A n \in FieldNames(cls) :
        (\E i \in 1..Len(files) : n \in Keys(files[i])) =>
            o.items[n] = FieldValue(cls, n, files[Includer(n)].items[n])

\* C11 as stated: load_from_yaml on files that validate returns the object
\* holding the files' values, including files overriding included ones.
LoadFromYamlAsStated ==
    (files # <<>> /\ pc = "returned") => HoldsFileValues(retval)

-----------------------------------------------------------------------------
(* the field walk *)

\* the leaf paths of a schema, depth first, in declaration order
RECURSIVE Walk(_, _)
Walk(c, i) ==
    IF i > Len(model_fields(c)) THEN <<>>
    ELSE LET f == model_fields(c)[i]
             here == IF f.tp = "model"
                     THEN [j \in 1..Len(Walk(f.model, 1)) |->
                              <<f.name>> \o Walk(f.model, 1)[j]]
                     ELSE <<<<f.name>>>>
         IN here \o Walk(c, i + 1)

\* the keys of parsed_dict that come from the parser's own arguments
ParserKeys ==
    LET k == Len(Walk(cls, 1)) + (IF require_default_file THEN 2 ELSE 1)
    IN [i \in 1..k |-> parsed_dict[i][1]]

\* C12: the parser has exactly one flag per leaf field, in depth-first
\* declaration order and named by the joined path; a nested-schema field
\* has no flag of its own and no two flags have the same name.
FieldWalk ==
    pc = "help" =>
        LET walk == Walk(cls, 1)
            ahead == IF require_default_file
                     THEN <<config_file_path, help>> ELSE <<help>>
            flags == parse_params(cls, <<>>, require_default_file,
                                  replace_underscore_to_hyphen)
        IN /\ {walk[i] : i \in 1..Len(walk)} = LeafFieldPaths(cls)
           /\ Len(flags) = Len(walk)
           /\ \A i \in 1..Len(walk) : flags[i].name = FlagOf(walk[i])
           /\ \A i, j \in 1..Len(flags) :
                i # j => flags[i].name # flags[j].name
           /\ Len(parsed_dict) >= Len(ahead) + Len(walk)
           /\ ParserKeys = ahead \o [i \in 1..Len(walk) |->
                                        Dest(FlagOf(walk[i]))]
           /\ \A i \in (Len(ahead) + Len(walk) + 1)..Len(parsed_dict) :
                parsed_dict[i][1] \notin
                    UNION {{JoinPath(SubSeq(p, 1, n)) : n \in 1..(Len(p) - 1)} :
                                p \in LeafFieldPaths(cls)}

FieldWalkWitness ==
    /\ pc = "help"
    /\ cls = "Config"
    /\ replace_underscore_to_hyphen
    /\ Len(parsed_dict) = 5
    /\ parsed_dict[3][1] = inner \o <<Sep>> \o number
    /\ parsed_dict[4][1] = optim \o <<Sep>> \o lr

-----------------------------------------------------------------------------
(* flatten and rehydrate *)

\* C13 as stated: a mapping that was flattened and rehydrated with the same
\* separator is equal to the original, empty mappings included.
RoundTripAsStated ==
    (pc = "merge" /\ IsDict(instance)) => nested_args_dict = instance

-----------------------------------------------------------------------------
(* underscore-to-hyphen mode *)

\* C14 as stated: in underscore-to-hyphen mode the value given on the
\* hyphen spelling of a leaf field's flag is the value of the field in the
\* returned object.
HyphenFlagAsStated ==
    (pc = "returned" /\ replace_underscore_to_hyphen) =>
        \A p \in LeafFieldPaths(cls) :
            FlagGiven(p) =>
                At(instance, p) = Coerced(FieldAt(cls, p).tp, GivenRaw(p))

-----------------------------------------------------------------------------
(* boolean fields *)

BoolFieldPaths(c) == {p \in LeafFieldPaths(c) : FieldAt(c, p).tp = "bool"}

\* C15 as stated: --<path> sets a boolean field to True and --no-<path> to
\* False; with neither, the field keeps its default, or the YAML value in
\* default-file mode.
BooleanPairAsStated ==
    pc = "returned" =>
        \A p \in BoolFieldPaths(cls) :
            At(instance, p) =
                IF FlagGiven(p) THEN GivenRaw(p)
                ELSE IF require_default_file /\ p \in LeafPaths(yaml_file)
                THEN At(yaml_file, p)
                ELSE DeclaredDefault(cls, p)

-----------------------------------------------------------------------------
(* collection fields *)

CollectionPaths(c) ==
    {p \in LeafFieldPaths(c) : FieldAt(c, p).tp \in {"list[int]", "list", "List"}}

\* the last place of the flag of p on the command line
LastFlag(p) ==
    CHOOSE i \in 1..Len(args) :
        /\ IsFlagOf(args[i], p)
        /\ \A m \in (i + 1)..Len(args) : ~IsFlagOf(args[m], p)

\* the values that follow the flag at place i, each as the declared element
\* type makes it: an integer for list[int], the raw string with no element
\* type (a string that is no integer stays raw for validation to reject)
FollowingValues(p, i) ==
    ListV([j \in 1..WordRun(args, i + 1) |->
        IF FieldAt(cls, p).tp = "list[int]"
           /\ ParseInt(args[i + j].text) # Raised
        THEN ParseInt(args[i + j].text)
        ELSE StrV(args[i + j].text)])

\* C16 as stated: the flag of a collection field takes every value that
\* follows it, none included, each coerced to the element type, or kept as
\* a raw string when the collection declares no element type.
CollectionsAsStated ==
    pc = "help" =>
        \A p \in CollectionPaths(cls) :
            (FlagGiven(p) /\ ~args[LastFlag(p)].eq) =>
                DictValue(parsed_dict, Dest(FlagOf(p)))
                    = FollowingValues(p, LastFlag(p))

-----------------------------------------------------------------------------
(* untouched fields *)

\* C17 as stated: with no default file, every leaf field of the returned
\* object holds the value of its flag when the flag is given, and else the
\* value that constructing the schema with no arguments gives it, which for
\* a leaf of a nested schema is the value in the declared default instance.
UntouchedDefaultsAsStated ==
    (pc = "returned" /\ ~require_default_file) =>
        \A p \in LeafFieldPaths(cls) :
            At(retval, p) =
                IF FlagGiven(p) THEN Coerced(FieldAt(cls, p).tp, GivenRaw(p))
                ELSE DeclaredDefault(cls, p)

-----------------------------------------------------------------------------
(* Literal fields *)

LiteralPaths(c) ==
    {p \in LeafFieldPaths(c) : get_origin(FieldAt(c, p).tp) = "Literal"}

\* the declared literal a raw string spells
Spelled(tp, text) == {l \in Literals(tp) : Str(l) = text}

\* C18: a returned object holds a declared literal in every Literal field;
\* validation reports a literal error for the field exactly when the merged
\* mapping, whether its value came from the YAML file or from a flag, holds
\* a value outside the declared set, and stores a declared value as it is;
\* and the field's flag turns the spelling of a declared literal into that
\* literal.
LiteralsEnforced ==
    \A p \in LiteralPaths(cls) :
        LET tp == FieldAt(cls, p).tp
        IN /\ pc = "returned" => At(retval, p) \in Literals(tp)
           /\ (validation # NotValidated /\ IsDict(file_dict)
                    /\ p \in LeafPaths(file_dict)) =>
                /\ [loc |-> p, type |-> "literal_error"] \in validation.errors
                        <=> At(file_dict, p) \notin Literals(tp)
                /\ validation.kind = "ok" => At(instance, p) = At(file_dict, p)
           /\ (pc = "help" /\ FlagGiven(p)
                    /\ Spelled(tp, GivenRaw(p).s) # {}) =>
                DictValue(parsed_dict, Dest(FlagOf(p)))
                    \in Spelled(tp, GivenRaw(p).s)

\* an object is returned whose Literal fields hold a declared value that a
\* flag spelled and a declared value of the YAML file
LiteralsEnforcedWitness ==
    /\ cls = "Dist"
    /\ pc = "returned"
    /\ FlagGiven(<<level>>)
    /\ ~FlagGiven(<<distribution>>)
    /\ At(retval, <<level>>) = IntV(4)
    /\ At(retval, <<distribution>>) = StrV("Uniform")

-----------------------------------------------------------------------------
(* the default file cannot be read *)

\* the call has ended in the exception of open(): the parsed arguments
\* still hold the path and no longer hold help
IOFailed ==
    /\ pc = "raised"
    /\ DictHas(parsed_dict, config_file_path)
    /\ ~DictHas(parsed_dict, help)

\* C19: with a default file, the step that reads the file either loads its
\* contents or ends the call in the error; after the error nothing has been
\* merged, validated, printed as a diff or returned, and the call takes no
\* further step.
IOFailureIsFatal ==
    /\ [](IOFailed =>
            /\ exit_code = 1
            /\ file_dict = NoneV
            /\ nested_args_dict = EmptyDict
            /\ validation = NotValidated
            /\ instance = NoneV
            /\ retval = NoneV
            /\ rendered = <<>>)
    /\ [][(pc = "load" /\ require_default_file) =>
            \/ IOFailed'
            \/ /\ pc' = "rehydrate"
               /\ exit_code' = NoExit
               /\ file_dict' \in YamlDocs(cls)]_vars
    /\ [][pc # "raised"]_vars

\* the read of the default file has failed on a command line that also
\* gives a field
IOFailureWitness ==
    /\ IOFailed
    /\ require_default_file
    /\ DictValue(parsed_dict, config_file_path) = StrV("f")
    /\ \E p \in LeafFieldPaths(cls) : FlagGiven(p)

-----------------------------------------------------------------------------
(* two calls at once *)

\* how a call ends: where, with what exit status, returning what
Outcome(status, code, value) ==
    [pc |-> status, exit_code |-> code, retval |-> value]

\* parse_args run from its first line to its last with nothing else
\* running, on a default file that holds doc
Alone(c, file_mode, hyphen, argv, doc) ==
    LET r == parse_all_args_as_dict(Parser(c, file_mode, hyphen), argv)
    IN IF r.status = "exit" THEN Outcome("exited", r.code, NoneV)
       ELSE IF r.status = "raised" THEN Outcome("raised", 1, NoneV)
       ELSE IF Truthy(DictValue(r.ns, help)) THEN Outcome("exited", 0, NoneV)
       ELSE
         LET given == IF file_mode
                      THEN DictDel(DictDel(r.ns, help), config_file_path)
                      ELSE DictDel(r.ns, help)
             nested == Rehydrate(given, 1, EmptyDict)
             merged == update_recursively(IF file_mode THEN doc ELSE EmptyDict,
                                          nested)
             checked == model_validate(c, merged, <<>>)
         IN IF nested = Raised \/ merged = Raised
            THEN Outcome("raised", 1, NoneV)
            ELSE IF checked.kind = "ok"
            THEN Outcome("returned", NoExit, checked.value)
            ELSE Outcome("exited", 1, NoneV)

Ended(call) == call.pc \in {"returned", "exited", "raised"}

\* the call ended in the exception of open()
IOFailedIn(call) ==
    /\ call.pc = "raised"
    /\ DictHas(call.parsed_dict, config_file_path)

\* the call ended as it ends when run alone on the same arguments and the
\* same file
AsAlone(call) ==
    (Ended(call) /\ ~IOFailedIn(call)) =>
        Outcome(call.pc, call.exit_code, call.retval)
            = Alone(call.cls, call.require_default_file,
                    call.replace_underscore_to_hyphen, call.args,
                    call.yaml_file)

-----------------------------------------------------------------------------
(* the merge of a mapping over a value that is no mapping *)

\* the paths where overlay holds a mapping and base a value that is none
MappingOverNonMapping ==
    {p \in AllPaths(nested_args_dict) \cap LeafPaths(yaml_file) :
        IsDict(At(nested_args_dict, p))}

\* C21 as stated: where the overlay holds a mapping and base holds a value
\* that is no mapping, the merge completes and the merged mapping holds the
\* overlay's mapping there.
MappingReplacesAsStated ==
    (pc # "merge" /\ MappingOverNonMapping # {}) =>
        /\ pc = "validate"
        /\ \A p \in MappingOverNonMapping :
            /\ p \in AllPaths(file_dict)
            /\ At(file_dict, p) = At(nested_args_dict, p)

-----------------------------------------------------------------------------
(* rehydration of keys where one is a prefix of the other *)

\* the flat keys: the key paths of the merge inputs joined with the separator
FlatKeys == {JoinPath(p) : p \in MergePaths}
FlatVals == {IntV(1), IntV(2), NOT_PROVIDED}

\* the flat mappings of at most n entries, in every insertion order
RECURSIVE FlatDicts(_)
FlatDicts(n) ==
    IF n = 0 THEN {<<>>}
    ELSE LET shorter == FlatDicts(n - 1)
         IN shorter \cup
            {Append(d, <<k, v>>) : d \in shorter, k \in FlatKeys, v \in FlatVals}

DistinctKeys(d) == \A i, j \in 1..Len(d) : i # j => d[i][1] # d[j][1]

\* the loop of lines 313-321 on a parsed mapping of any keys
InitRehydrate ==
    /\ console = <<>>
    /\ heap = <<>>
    /\ suspended = NoneV
    /\ cls = "Config"
    /\ require_default_file = FALSE
    /\ replace_underscore_to_hyphen = FALSE
    /\ args = <<>>
    /\ files = <<>>
    /\ diff_print_mode = "none"
    /\ pc = "rehydrate"
    /\ parsed_dict \in {d \in FlatDicts(MaxLeaves) : DistinctKeys(d)}
    /\ yaml_file = EmptyDict
    /\ file_dict = EmptyDict
    /\ nested_args_dict = EmptyDict
    /\ validation = NotValidated
    /\ instance = NoneV
    /\ exit_code = NoExit
    /\ rendered = <<>>
    /\ retval = NoneV

NextRehydrate == BuildNested

SpecRehydrate == InitRehydrate /\ [][NextRehydrate]_vars

\* the entries that are inserted: the sentinel is skipped
Inserted == {i \in 1..Len(parsed_dict) : parsed_dict[i][2] # NOT_PROVIDED}

KeyPath(i) == Split(parsed_dict[i][1], Sep)

\* entry i is at a key and entry j at a key below it
Collide(i, j) ==
    /\ i \in Inserted /\ j \in Inserted
    /\ Len(KeyPath(i)) < Len(KeyPath(j))
    /\ IsPrefix(KeyPath(i), KeyPath(j))

\* no entry inserted after i has a key at, above or below the key of i
Last(i) ==
    \A m \in Inserted :
        m > i => /\ ~IsPrefix(KeyPath(m), KeyPath(i))
                 /\ ~IsPrefix(KeyPath(i), KeyPath(m))

\* C22 as stated: with a key and a key below it both in the parsed mapping,
\* in either insertion order the rehydration completes, and the entry
\* inserted later is what the nested mapping holds at its key.
PrefixCollisionAsStated ==
    \A i, j \in 1..Len(parsed_dict) :
        (pc # "rehydrate" /\ Collide(i, j)) =>
            /\ pc = "merge"
            /\ \A m \in {i, j} :
                Last(m) =>
                    /\ KeyPath(m) \in AllPaths(nested_args_dict)
                    /\ At(nested_args_dict, KeyPath(m)) = parsed_dict[m][2]

-----------------------------------------------------------------------------
(* the order of field validation and the cross-field check *)

ExclusivityError == [loc |-> <<>>, type |-> "value_error"]

\* C23: a mutual-exclusivity failure is reported only when every field of
\* the schema passed its own validation; when a field fails, the errors
\* reported are the field errors and nothing else.
CheckAfterFields ==
    validation # NotValidated =>
        LET fields == ValidateFields(cls, file_dict, <<>>)
        IN /\ ExclusivityError \in validation.errors => fields.errors = {}
           /\ fields.errors # {} => validation.errors = fields.errors

\* a field has failed while the values of the other fields break mutual
\* exclusivity, and only the field error is reported
CheckAfterFieldsWitness ==
    /\ pc = "exited"
    /\ validation.kind = "error"
    /\ mutually_exclusive_sets(cls) # {}
    /\ LET fields == ValidateFields(cls, file_dict, <<>>)
       IN /\ fields.errors # {}
          /\ ~check_mutually_exclusive_sets(cls, fields.self)
    /\ ExclusivityError \notin validation.errors

-----------------------------------------------------------------------------
(* the diagnostic of a validation failure *)

\* the diagnostic on the console
Diagnostic == console[Len(console)]

\* the places of an error record in the diagnostic: table and row
Places(e) ==
    {<<g, i>> \in (1..Len(Diagnostic.children)) \X (1..Cardinality(validation.errors)) :
        /\ i <= Len(Diagnostic.children[g].rows)
        /\ Diagnostic.children[g].rows[i] = e}

\* the table an error type belongs in
GroupOf(type) ==
    CASE type = "missing" -> "Missing Required Values"
      [] type = "type_error" -> "Type Errors"
      [] type = "value_error" -> "Value Errors"
      [] OTHER -> "Other Validation Errors"

\* C24: after a validation failure every error record is in one row of one
\* table of the diagnostic, the table of its type, every row is an error
\* record, and the table of the missing required values has no message
\* column.
GroupedOnce ==
    validation.kind = "error" =>
        /\ console # <<>>
        /\ \A e \in validation.errors :
            /\ Cardinality(Places(e)) = 1
            /\ \A pl \in Places(e) :
                Diagnostic.children[pl[1]].node = GroupOf(e.type)
        /\ \A g \in 1..Len(Diagnostic.children) :
            /\ \A i \in 1..Len(Diagnostic.children[g].rows) :
                Diagnostic.children[g].rows[i] \in validation.errors
            /\ Diagnostic.children[g].node = "Missing Required Values" =>
                "Error" \notin {Diagnostic.children[g].columns[i] :
                                i \in 1..Len(Diagnostic.children[g].columns)}

\* a failure with a missing required value and an error of another kind
GroupedOnceWitness ==
    /\ pc = "exited"
    /\ validation.kind = "error"
    /\ \E e, f \in validation.errors :
        e.type = "missing" /\ f.type \notin {"missing", "value_error"}
    /\ Len(Diagnostic.children) = 2

-----------------------------------------------------------------------------
(* the verbosity of the diff *)

\* the tree of the diff that was printed last
DiffTree == console[Len(console)].tree

\* the path of keys from the root to the node at index i
RECURSIVE NodePath(_)
NodePath(i) ==
    IF DiffTree[i].depth = 1 THEN <<DiffTree[i].key>>
    ELSE LET up == CHOOSE j \in 1..(i - 1) :
                    /\ DiffTree[j].depth = DiffTree[i].depth - 1
                    /\ \A m \in (j + 1)..(i - 1) :
                            DiffTree[m].depth >= DiffTree[i].depth
         IN NodePath(up) \o <<DiffTree[i].key>>

\* the nodes that show the entry at path p
NodesOf(p) == {i \in 1..Len(DiffTree) : NodePath(i) = p}

\* the entries of the returned object: every field, at every depth
Entries == AllPaths(retval)

\* an entry whose value equals the schema default: a leaf with a declared
\* default that holds it, a nested mapping all of whose leaves do
UnchangedLeaf(p) ==
    /\ ~FieldNamed(cls, p[1]).required
    /\ At(retval, p) = DeclaredDefault(cls, p)
UnchangedEntry(p) ==
    IF IsDict(At(retval, p))
    THEN \A q \in LeafPaths(At(retval, p)) : UnchangedLeaf(p \o q)
    ELSE UnchangedLeaf(p)

NoneRendersNothing ==
    (pc = "returned" /\ diff_print_mode = "none") => console = <<>>
SkipHidesUnchanged ==
    (pc = "returned" /\ diff_print_mode = "tree_skip") =>
        \A p \in Entries : UnchangedEntry(p) => NodesOf(p) = {}
DimShowsUnchangedDimmed ==
    (pc = "returned" /\ diff_print_mode = "tree_dim") =>
        \A p \in Entries : UnchangedEntry(p) =>
            /\ NodesOf(p) # {}
            /\ \A i \in NodesOf(p) : DiffTree[i].style = "dim"
TreeShowsAll ==
    (pc = "returned" /\ diff_print_mode \in {"tree", "tree_dim"}) =>
        \A p \in Entries : NodesOf(p) # {}
ModeKeepsObject ==
    pc = "returned" => retval = validation.value

\* C25 as stated: mode "none" prints nothing; in "tree_skip" no entry whose
\* value equals the schema default has a node in the tree, be it a scalar, a
\* list or a nested mapping; in "tree_dim" every such entry has a dimmed
\* node; in "tree" every entry has a node; and the object returned is the
\* validated one in every mode.
DiffVerbosityAsStated ==
    /\ NoneRendersNothing
    /\ SkipHidesUnchanged
    /\ DimShowsUnchangedDimmed
    /\ TreeShowsAll
    /\ ModeKeepsObject

-----------------------------------------------------------------------------
(* the diff of required fields *)

\* the leaves the baseline of print_diff_to_default marks as not provided
MarkedLeaves ==
    {p \in LeafFieldPaths(cls) :
        At(get_default_dict(cls, NOT_PROVIDED), p).kind = "NOT_PROVIDED"}

\* C27 as stated: the baseline marks every required leaf field, and a marked
\* leaf that received a value is shown by one node, of the form
\* "(Assigned)", never by a modified key with a previous and a current
\* value below it.
RequiredShownAssignedAsStated ==
    (pc = "returned" /\ diff_print_mode \in TreeModes) =>
        /\ \A p \in LeafFieldPaths(cls) :
                FieldAt(cls, p).required => p \in MarkedLeaves
        /\ \A p \in MarkedLeaves :
                /\ Cardinality(NodesOf(p)) = 1
                /\ \A i \in NodesOf(p) :
                    /\ DiffTree[i].form = "assigned"
                    /\ (i < Len(DiffTree) =>
                            DiffTree[i + 1].form # "previous")

-----------------------------------------------------------------------------
(* the residual bag and the declared fields *)

\* what the schema's parser made of the argument list, and what the parser
\* of the unrecognised flags made of the rest
KnownParse ==
    parse_known_args(Parser(cls, require_default_file,
                            replace_underscore_to_hyphen), args)
ResidualBag == UnknownScan(KnownParse.extras, 1, <<>>).ns

\* C26 as stated: no key captured from an unrecognised flag is a key of the
\* schema's parser, and every declared field leaves the parse with the value
\* the schema's parser parsed or defaulted for it.
ResidualDisjointAsStated ==
    pc = "help" =>
        \A i \in 1..Len(KnownParse.ns) :
            /\ ~DictHas(ResidualBag, KnownParse.ns[i][1])
            /\ DictValue(parsed_dict, KnownParse.ns[i][1]) =
                    KnownParse.ns[i][2]

-----------------------------------------------------------------------------
(* the help listing and the parser *)

\* the names the help listing shows as flags, and the names of the flags
\* the parser has for the schema
HelpNames ==
    {console[Len(console)].rows[i].flag :
        i \in 1..Len(console[Len(console)].rows)}
SchemaFlags ==
    LET arguments == parse_params(cls, <<>>, require_default_file,
                                  replace_underscore_to_hyphen)
    IN {arguments[i].name : i \in 1..Len(arguments)}

\* C28 as stated: the names the help listing shows are the names of the
\* parser's flags for the schema, at every depth and in either spelling
\* mode, and none of them is a name that is no flag.
HelpAgreesWithParserAsStated ==
    (pc = "exited" /\ rendered = <<"help">>) => HelpNames = SchemaFlags

-----------------------------------------------------------------------------
(* the frame of the merge *)

\* the objects before the merge
Before == InitHeap(yaml_file, parsed_dict)

\* the addresses of the dict objects a reference leads to, itself included
RECURSIVE Reach(_, _)
Reach(h, cell) ==
    IF cell.kind # "ref" THEN {}
    ELSE {cell.addr} \cup
         UNION {Reach(h, h[cell.addr][k]) : k \in DOMAIN h[cell.addr]}

\* the value a reference stands for
RECURSIVE ValueOf(_, _)
ValueOf(h, cell) ==
    IF cell.kind # "ref" THEN cell
    ELSE DictV([k \in DOMAIN h[cell.addr] |-> ValueOf(h, h[cell.addr][k])])

\* C29: the merge returns the base object itself, changed into the merged
\* mapping; the overlay object and every dict object below it are as they
\* were, whether the merge returns or raises; and no dict object of the
\* overlay is reachable from the result.
MergeFrame ==
    LET before == Before
        result == Reach(heap, file_dict)
    IN /\ \A x \in Reach(before.heap, before.overlay) :
            heap[x] = before.heap[x]
       /\ pc = "validate" =>
            /\ file_dict = before.base
            /\ ValueOf(heap, file_dict) =
                    update_recursively(yaml_file, parsed_dict)
            /\ ValueOf(heap, nested_args_dict) = parsed_dict
            /\ result \cap Reach(heap, nested_args_dict) = {}

\* a merge has returned that copied a non-empty mapping of the overlay into
\* a new dict and another one key by key into a mapping of base
MergeFrameWitness ==
    /\ pc = "validate"
    /\ Len(heap) > Len(Before.heap)
    /\ \E k \in Keys(parsed_dict) \ Keys(yaml_file) :
        IsDict(parsed_dict.items[k]) /\ Keys(parsed_dict.items[k]) # {}
    /\ \E k \in Keys(parsed_dict) \cap Keys(yaml_file) :
        /\ IsDict(parsed_dict.items[k]) /\ Keys(parsed_dict.items[k]) # {}
        /\ IsDict(yaml_file.items[k]) /\ Keys(yaml_file.items[k]) # {}

====
